---------------------------- MODULE Spec2Model ----------------------------
(***************************************************************************)
(* Model of the Trelliq report engine (src/src/data_processor.py,          *)
(* src/src/config.py) and of the Streamlit session that drives it          *)
(* (src/app.py).                                                           *)
(*                                                                         *)
(* Strings are TLA+ strings; the string operations the code relies on      *)
(* (upper, strip, substring test, join) are computed character by          *)
(* character.  A calendar date is a day number.  A timestamp field of a    *)
(* card (due, dateLastActivity) is a record: kind "none" (key missing or   *)
(* None), "bad" (a string datetime.fromisoformat rejects) or "iso" (a      *)
(* well-formed ISO-8601 string, with the calendar day it names).           *)
(***************************************************************************)
EXTENDS Integers, Sequences, FiniteSets, TLC

VARIABLES
    trello_data,           \* st.session_state.trello_data (the board snapshot)
    date_range,            \* st.session_state.date_range  <<start, end>>
    selected_groups,       \* st.session_state.selected_groups
    task_reports,          \* st.session_state.task_reports
    collaborator_reports,  \* st.session_state.collaborator_reports
    report_summary,        \* st.session_state.report_summary: <<>> for None, <<summary>> otherwise
    today,                 \* date.today()
    hash_order,            \* iteration order of a set of group names (str hash of the process)
    ret                    \* the last call of a processor method and what it returned

vars == <<trello_data, date_range, selected_groups, task_reports,
          collaborator_reports, report_summary, today, hash_order, ret>>

---------------------------------------------------------------------------
(* Bounds of the model                                                     *)

MaxDay == 4            \* calendar days are 1..MaxDay
MaxAssignees == 2      \* a card of the single-card specification has at most this many idMembers
MaxCards == 2          \* a board of the session specification has at most this many cards
MaxRows == 3           \* an aggregator is called on at most this many rows

Days == 1..MaxDay

---------------------------------------------------------------------------
(* Python string operations                                                *)

LowerChars == "abcdefghijklmnopqrstuvwxyzáãçéíóõú"
UpperChars == "ABCDEFGHIJKLMNOPQRSTUVWXYZÁÃÇÉÍÓÕÚ"

CharAt(s, i) == SubSeq(s, i, i)

UpperOfLower ==
    [c \in {CharAt(LowerChars, i) : i \in 1..Len(LowerChars)} |->
        CharAt(UpperChars, CHOOSE i \in 1..Len(LowerChars) : CharAt(LowerChars, i) = c)]

\* str.upper() of one character
UpperChar(c) == IF c \in DOMAIN UpperOfLower THEN UpperOfLower[c] ELSE c

RECURSIVE UpperOf(_)
\* str.upper(), character by character
UpperOf(s) ==
    IF Len(s) = 0 THEN ""
    ELSE UpperChar(CharAt(s, 1)) \o UpperOf(SubSeq(s, 2, Len(s)))

\* The lists array of the model's boards.
BoardLists == <<
    [id |-> "L1",  name |-> "EM PROCESSO DE CONTEÚDO"],
    [id |-> "L2",  name |-> "FEITOS"],
    [id |-> "L3",  name |-> "Concluído"],
    [id |-> "L4",  name |-> "AGUARDANDO RETORNO DE TERCEIROS"],
    [id |-> "L5",  name |-> "AGUARDANDO RETORNO DE CORREÇÕES"],
    [id |-> "L6",  name |-> "PLANEJANDO ESTRATÉGIAS"],
    [id |-> "L7",  name |-> "Tarefas Bloqueadas"],
    [id |-> "L8",  name |-> "Plano de Mídia"],
    [id |-> "L9",  name |-> "Recorrentes"],
    [id |-> "L10", name |-> "BACKLOG"],
    [id |-> "L11", name |-> "EM PROCESSO DE MONTAGEM"],
    [id |-> "L12", name |-> " Em Processo de Conteúdo "]
>>

\* UpperOf, computed once for the list names the model's boards use
UpperTable ==
    [n \in {BoardLists[i].name : i \in 1..Len(BoardLists)} \cup {"Lista não encontrada"}
        |-> UpperOf(n)]

\* str.upper()
Upper(s) == IF s \in DOMAIN UpperTable THEN UpperTable[s] ELSE UpperOf(s)

RECURSIVE LStrip(_)
\* str.lstrip(): drops the leading blanks
LStrip(s) ==
    IF Len(s) > 0 /\ CharAt(s, 1) = " " THEN LStrip(SubSeq(s, 2, Len(s))) ELSE s

RECURSIVE RStrip(_)
\* str.rstrip(): drops the trailing blanks
RStrip(s) ==
    IF Len(s) > 0 /\ CharAt(s, Len(s)) = " " THEN RStrip(SubSeq(s, 1, Len(s) - 1)) ELSE s

\* str.strip()
Strip(s) == RStrip(LStrip(s))

\* keyword in s
Contains(s, keyword) ==
    \E i \in 1..(Len(s) - Len(keyword) + 1) :
        SubSeq(s, i, i + Len(keyword) - 1) = keyword

RECURSIVE Join(_, _)
\* sep.join(parts)
Join(sep, parts) ==
    IF Len(parts) = 0 THEN ""
    ELSE IF Len(parts) = 1 THEN parts[1]
    ELSE parts[1] \o sep \o Join(sep, Tail(parts))

RECURSIVE Split(_, _)
\* s.split(sep), for a separator of one character
Split(s, sep) ==
    LET hits == {i \in 1..Len(s) : CharAt(s, i) = sep}
        at == CHOOSE i \in hits : \A j \in hits : i <= j
    IN  IF hits = {} THEN << s >>
        ELSE << SubSeq(s, 1, at - 1) >> \o Split(SubSeq(s, at + 1, Len(s)), sep)

\* the characters of the model's strings, in code point order
CodePointOrder ==
    " ,-0123456789ABCDEFGHIJKLMNOPQRSTUVWXYZabcdefghijklmnopqrstuvwxyzÁÃÇÉÍÓÕÚáãçéíóõú"

CodePointRank(c) == CHOOSE i \in 1..Len(CodePointOrder) : CharAt(CodePointOrder, i) = c

RECURSIVE StrLess(_, _)
\* a < b on str: by code point, a proper prefix first
StrLess(a, b) ==
    IF Len(b) = 0 THEN FALSE
    ELSE IF Len(a) = 0 THEN TRUE
    ELSE IF CharAt(a, 1) # CharAt(b, 1)
    THEN CodePointRank(CharAt(a, 1)) < CodePointRank(CharAt(b, 1))
    ELSE StrLess(SubSeq(a, 2, Len(a)), SubSeq(b, 2, Len(b)))

\* sorted(seq, key=...): stable; ranks[i] is the number of elements of seq whose
\* key is less than the key of seq[i]
sorted(seq, ranks) ==
    LET precedes(j, i) == \/ ranks[j] < ranks[i]
                          \/ ranks[j] = ranks[i] /\ j < i
        position(i) == 1 + Cardinality({j \in 1..Len(seq) : precedes(j, i)})
    IN  [p \in 1..Len(seq) |-> seq[CHOOSE i \in 1..Len(seq) : position(i) = p]]

RECURSIVE Sum(_)
\* sum(seq)
Sum(seq) == IF Len(seq) = 0 THEN 0 ELSE Head(seq) + Sum(Tail(seq))

RECURSIVE Gcd(_, _)
Gcd(a, b) == IF b = 0 THEN a ELSE Gcd(b, a % b)

\* the float n / d (d > 0), kept exact as a fraction in lowest terms
Fraction(n, d) == [num |-> n \div Gcd(n, d), den |-> d \div Gcd(n, d)]

FractionLess(x, y) == x.num * y.den < y.num * x.den

\* round(n / d): to the nearest integer, a half to the even one
Round(n, d) ==
    LET q == n \div d
        r == n % d
    IN  IF 2 * r < d THEN q
        ELSE IF 2 * r > d THEN q + 1
        ELSE IF q % 2 = 0 THEN q ELSE q + 1

---------------------------------------------------------------------------
(* src/src/config.py                                                       *)

CONTENT_CREATORS == {"leonardoferreiracardoso5", "jamillyfreitass"}

GRUPOS_MARKETING == <<
    [name |-> "Grupo 1",
     responsaveis |-> << [username |-> "jamillyfreitass", nome |-> "Jamily"],
                         [username |-> "leonardoferreiracardoso5", nome |-> "Leo"] >>,
     etapas_abertura |-> <<"EM PROCESSO DE CONTEÚDO">>,
     etapas_finalizacao |-> <<"EM PROCESSO DE MONTAGEM", "EM PROCESSO DE ENVIO">>,
     etapa_feito |-> <<"FEITOS", "FEITO">>],
    [name |-> "Grupo 2",
     responsaveis |-> << [username |-> "fazstudioart", nome |-> "Luiz"],
                         [username |-> "miguelluis30", nome |-> "Miguel"] >>,
     etapas_abertura |-> <<"PROCESSO DE CRIAÇÃO">>,
     etapas_finalizacao |-> <<"EM PROCESSO DE MONTAGEM", "EM PROCESSO DE ENVIO">>,
     etapa_feito |-> <<"FEITOS", "FEITO">>],
    [name |-> "Grupo 3",
     responsaveis |-> << [username |-> "samuelpiske1", nome |-> "Samuel"] >>,
     etapas_abertura |-> <<"PROCESSO DE GRAVAÇÃO", "EDIÇÃO">>,
     etapas_finalizacao |-> <<"EM PROCESSO DE MONTAGEM", "EM PROCESSO DE ENVIO">>,
     etapa_feito |-> <<"FEITOS", "FEITO">>],
    [name |-> "Grupo 4",
     responsaveis |-> << [username |-> "flaviasilva", nome |-> "Flávia"],
                         [username |-> "coordenacao", nome |-> "Coordenação"] >>,
     etapas_abertura |-> <<"EM PROCESSO DE QUALIDADE", "EM PROCESSO DE EDIÇÃO E REVISÃO">>,
     etapas_finalizacao |-> <<"EM PROCESSO DE MONTAGEM", "EM PROCESSO DE ENVIO">>,
     etapa_feito |-> <<"FEITOS", "FEITO">>]
>>

\* The list-name -> status table, as the sequence of its (key, value) pairs.
LIST_STATUS_MAP == <<
    <<"PLANEJANDO ESTRATÉGIAS", "Planejamento">>,
    <<"ATIVIDADES RECORRENTES", "Recorrente">>,
    <<"EM PROCESSO DE CONTEÚDO", "Em Andamento">>,
    <<"EM PROCESSO DE QUALIDADE", "Em Andamento">>,
    <<"EM PROCESSO DE EDIÇÃO E REVISÃO", "Em Andamento">>,
    <<"EM PROCESSO DE MONTAGEM", "Em Andamento">>,
    <<"EM PROCESSO DE REVISÃO", "Em Andamento">>,
    <<"AGUARDANDO RETORNO DE CORREÇÕES", "Bloqueada">>,
    <<"EM PROCESSO DE ENVIO", "Em Andamento">>,
    <<"FEITO", "Concluída">>,
    <<"FEITOS", "Concluída">>
>>

\* Python's None, where a name or a label is expected
None == "None"

\* LIST_STATUS_MAP.get(key)
LIST_STATUS_MAP_get(key) ==
    IF \E i \in 1..Len(LIST_STATUS_MAP) : LIST_STATUS_MAP[i][1] = key
    THEN LIST_STATUS_MAP[CHOOSE i \in 1..Len(LIST_STATUS_MAP) : LIST_STATUS_MAP[i][1] = key][2]
    ELSE None

\* get_grupo_por_responsavel(username).name, or None: the first group, in
\* registry order, one of whose responsaveis has this username
get_grupo_por_responsavel(username) ==
    LET has(g) == \E r \in 1..Len(GRUPOS_MARKETING[g].responsaveis) :
                      GRUPOS_MARKETING[g].responsaveis[r].username = username
        hits == {g \in 1..Len(GRUPOS_MARKETING) : has(g)}
    IN  IF hits = {} THEN None
        ELSE GRUPOS_MARKETING[CHOOSE g \in hits : \A h \in hits : g <= h].name

\* next((g for g in GRUPOS_MARKETING if g.name == nome_grupo), None), as an index (0: None)
grupo_index(nome_grupo) ==
    LET hits == {g \in 1..Len(GRUPOS_MARKETING) : GRUPOS_MARKETING[g].name = nome_grupo}
    IN  IF hits = {} THEN 0 ELSE CHOOSE g \in hits : \A h \in hits : g <= h

get_etapa_atual(list_name) == Upper(list_name)

\* grupo is a group name or None
is_finalizada_para_flavia(list_name, grupo) ==
    IF grupo_index(grupo) = 0 THEN FALSE
    ELSE LET g == GRUPOS_MARKETING[grupo_index(grupo)]
         IN  \E k \in 1..Len(g.etapas_finalizacao) :
                 Contains(get_etapa_atual(list_name), g.etapas_finalizacao[k])

\* a variant of is_feita that also takes the group's finishing stages as done
is_feita_on_finalizacao(list_name, grupo) ==
    IF grupo_index(grupo) = 0 THEN FALSE
    ELSE LET g == GRUPOS_MARKETING[grupo_index(grupo)]
         IN  \/ \E k \in 1..Len(g.etapa_feito) :
                    Contains(get_etapa_atual(list_name), g.etapa_feito[k])
             \/ \E k \in 1..Len(g.etapas_finalizacao) :
                    Contains(get_etapa_atual(list_name), g.etapas_finalizacao[k])

is_feita(list_name, grupo) ==
    IF grupo_index(grupo) = 0 THEN FALSE
    ELSE LET g == GRUPOS_MARKETING[grupo_index(grupo)]
         IN  \E k \in 1..Len(g.etapa_feito) :
                 Contains(get_etapa_atual(list_name), g.etapa_feito[k])

is_em_revisao(list_name) == Contains(get_etapa_atual(list_name), "REVISÃO")

---------------------------------------------------------------------------
(* Timestamps and dates                                                    *)

NoTs == [kind |-> "none", day |-> 0]
BadTs == [kind |-> "bad", day |-> 0]
IsoTs(d) == [kind |-> "iso", day |-> d]

\* truthiness of card.get('due') / card.get('dateLastActivity')
Truthy(ts) == ts.kind # "none"

\* datetime.fromisoformat(...) returns instead of raising ValueError
Parses(ts) == ts.kind = "iso"

\* datetime.fromisoformat(...).date(): the calendar day, the time of day dropped
DateOf(ts) == ts.day

---------------------------------------------------------------------------
(* src/src/data_processor.py: TrelloDataProcessor                          *)

completed_keywords == <<"FEITO", "FEITOS", "CONCLUÍ", "FINALIZADO", "COMPLETO", "DONE", "FINISHED">>

\* any(keyword in list_name_upper for keyword in completed_keywords)
is_completed(list_name_upper) ==
    \E k \in 1..Len(completed_keywords) : Contains(list_name_upper, completed_keywords[k])

\* next((l for l in lists if l['id'] == list_id), None), as an index (0: None)
list_index(lists, list_id) ==
    LET hits == {i \in 1..Len(lists) : lists[i].id = list_id}
    IN  IF hits = {} THEN 0 ELSE CHOOSE i \in hits : \A j \in hits : i <= j

\* the set completed_list_ids that filter_cards_by_date_range builds from lists
build_completed_list_ids(lists) ==
    {lists[i].id : i \in {j \in 1..Len(lists) : is_completed(Strip(Upper(lists[j].name)))}}

\* build_completed_list_ids, computed once for the lists array of the model's boards
BoardCompletedListIds == build_completed_list_ids(BoardLists)

completed_list_ids(lists) ==
    IF lists = BoardLists THEN BoardCompletedListIds ELSE build_completed_list_ids(lists)

\* a variant of filter_includes where a done-list card without a usable due date
\* falls through to the last-activity test
filter_includes_done_by_activity(card, start_date, end_date, lists) ==
    IF card.closed THEN FALSE
    ELSE IF card.idList \in completed_list_ids(lists) /\ Truthy(card.due) /\ Parses(card.due)
    THEN start_date <= DateOf(card.due) /\ DateOf(card.due) <= end_date
    ELSE Truthy(card.dateLastActivity) /\ Parses(card.dateLastActivity)
         /\ start_date <= DateOf(card.dateLastActivity)
         /\ DateOf(card.dateLastActivity) <= end_date

\* a variant of filter_includes where a card with a due date is always tested on it
filter_includes_due_first(card, start_date, end_date, lists) ==
    IF card.closed THEN FALSE
    ELSE IF card.idList \in completed_list_ids(lists) \/ Parses(card.due)
    THEN Truthy(card.due) /\ Parses(card.due)
         /\ start_date <= DateOf(card.due) /\ DateOf(card.due) <= end_date
    ELSE Truthy(card.dateLastActivity) /\ Parses(card.dateLastActivity)
         /\ start_date <= DateOf(card.dateLastActivity)
         /\ DateOf(card.dateLastActivity) <= end_date

\* a variant of filter_includes that does not skip archived cards
filter_includes_archived(card, start_date, end_date, lists) ==
    IF card.idList \in completed_list_ids(lists)
    THEN Truthy(card.due) /\ Parses(card.due)
         /\ start_date <= DateOf(card.due) /\ DateOf(card.due) <= end_date
    ELSE Truthy(card.dateLastActivity) /\ Parses(card.dateLastActivity)
         /\ start_date <= DateOf(card.dateLastActivity)
         /\ DateOf(card.dateLastActivity) <= end_date

\* whether the loop body of filter_cards_by_date_range appends the card
filter_includes(card, start_date, end_date, lists) ==
    IF card.closed THEN FALSE
    ELSE IF card.idList \in completed_list_ids(lists)
    THEN IF Truthy(card.due) /\ Parses(card.due)
         THEN start_date <= DateOf(card.due) /\ DateOf(card.due) <= end_date
         ELSE FALSE
    ELSE IF ~Truthy(card.dateLastActivity) THEN FALSE
    ELSE IF ~Parses(card.dateLastActivity) THEN FALSE
    ELSE start_date <= DateOf(card.dateLastActivity)
         /\ DateOf(card.dateLastActivity) <= end_date

filter_cards_by_date_range(cards, start_date, end_date, lists) ==
    LET keep(card) == filter_includes(card, start_date, end_date, lists)
    IN  SelectSeq(cards, keep)

_is_overdue(card) ==
    IF ~Truthy(card.due) THEN FALSE
    ELSE IF ~Parses(card.due) THEN FALSE
    ELSE today > DateOf(card.due)

\* a variant of status_by_list_name that tries the Blocked keywords before the
\* third-party rule
status_by_list_name_blocked_first(card, list_name_upper) ==
    LET direct_status == LIST_STATUS_MAP_get(list_name_upper)
    IN  IF is_completed(list_name_upper) THEN "Concluída"
        ELSE IF direct_status = None
                /\ (Contains(list_name_upper, "BLOQUEADA")
                    \/ Contains(list_name_upper, "PARADA")
                    \/ Contains(list_name_upper, "AGUARDANDO")) THEN "Bloqueada"
        ELSE IF Contains(list_name_upper, "AGUARDANDO")
                /\ Contains(list_name_upper, "RETORNO")
                /\ Contains(list_name_upper, "TERCEIRO") THEN "Concluída"
        ELSE IF direct_status # None
        THEN IF direct_status # "Concluída" /\ Truthy(card.due) /\ _is_overdue(card)
             THEN "Atrasada"
             ELSE direct_status
        ELSE IF Contains(list_name_upper, "PLANEJ")
                \/ Contains(list_name_upper, "PLAN") THEN "Planejamento"
        ELSE IF Contains(list_name_upper, "RECORREN") THEN "Recorrente"
        ELSE IF Truthy(card.due) /\ _is_overdue(card) THEN "Atrasada"
        ELSE "Em Andamento"

\* get_task_status once the card's list is found: the rules on its name, in order
status_by_list_name(card, list_name_upper) ==
    LET direct_status == LIST_STATUS_MAP_get(list_name_upper)
    IN  IF is_completed(list_name_upper) THEN "Concluída"
        ELSE IF Contains(list_name_upper, "AGUARDANDO")
                /\ Contains(list_name_upper, "RETORNO")
                /\ Contains(list_name_upper, "TERCEIRO") THEN "Concluída"
        ELSE IF direct_status # None
        THEN IF direct_status # "Concluída" /\ Truthy(card.due) /\ _is_overdue(card)
             THEN "Atrasada"
             ELSE direct_status
        ELSE IF Contains(list_name_upper, "BLOQUEADA")
                \/ Contains(list_name_upper, "PARADA")
                \/ Contains(list_name_upper, "AGUARDANDO") THEN "Bloqueada"
        ELSE IF Contains(list_name_upper, "PLANEJ")
                \/ Contains(list_name_upper, "PLAN") THEN "Planejamento"
        ELSE IF Contains(list_name_upper, "RECORREN") THEN "Recorrente"
        ELSE IF Truthy(card.due) /\ _is_overdue(card) THEN "Atrasada"
        ELSE "Em Andamento"

get_task_status(card, lists, members) ==
    IF card.closed THEN "Concluída"
    ELSE IF list_index(lists, card.idList) = 0 THEN "Em Andamento"
    ELSE status_by_list_name(card, Strip(Upper(lists[list_index(lists, card.idList)].name)))

\* a variant of get_task_status_for_collaborator without the content creators' rule
get_task_status_for_any_viewer(card, collaborator_username, lists) ==
    get_task_status(card, lists, <<>>)

get_task_status_for_collaborator(card, collaborator_username, lists) ==
    IF card.closed THEN "Concluída"
    ELSE IF collaborator_username \notin CONTENT_CREATORS
    THEN get_task_status(card, lists, <<>>)
    ELSE IF list_index(lists, card.idList) = 0 THEN "Em Andamento"
    ELSE
    LET list_name_upper == Strip(Upper(lists[list_index(lists, card.idList)].name))
    IN  IF list_name_upper = "EM PROCESSO DE CONTEÚDO"
        THEN IF Truthy(card.due) /\ _is_overdue(card) THEN "Atrasada" ELSE "Em Andamento"
        ELSE "Concluída"

\* a variant of calculate_days_late that counts elapsed 24-hour periods from a due
\* time later in the day than now, one less than the calendar-day difference
calculate_days_late_elapsed(card) ==
    IF ~Truthy(card.due) \/ card.closed \/ ~Parses(card.due) THEN 0
    ELSE IF today <= DateOf(card.due) THEN 0
    ELSE today - DateOf(card.due) - 1

calculate_days_late(card) ==
    IF ~Truthy(card.due) THEN 0
    ELSE IF card.closed THEN 0
    ELSE IF ~Parses(card.due) THEN 0
    ELSE IF today <= DateOf(card.due) THEN 0
    ELSE today - DateOf(card.due)

\* a variant of calculate_days_late_for_collaborator without the content creators' rule
calculate_days_late_for_any_viewer(card, collaborator_username, lists) ==
    calculate_days_late(card)

calculate_days_late_for_collaborator(card, collaborator_username, lists) ==
    IF ~Truthy(card.due) THEN 0
    ELSE IF card.closed THEN 0
    ELSE IF collaborator_username \in CONTENT_CREATORS
    THEN LET list_name_upper ==
                 IF list_index(lists, card.idList) = 0 THEN ""
                 ELSE Strip(Upper(lists[list_index(lists, card.idList)].name))
         IN  IF list_name_upper # "EM PROCESSO DE CONTEÚDO" THEN 0
             ELSE calculate_days_late(card)
    ELSE calculate_days_late(card)

\* the formatted date: <<"Não definida">>, or <<"%d/%m/%Y", day>> for the text of that day
_format_due_date(due) ==
    IF ~Truthy(due) THEN <<"Não definida">>
    ELSE IF ~Parses(due) THEN <<"Não definida">>
    ELSE <<"%d/%m/%Y", DateOf(due)>>

\* TaskReport(...) as generate_task_reports fills it, card.get('id', '') and
\* card.get('name', '') included; completed_at is <<>> for None
TaskReport(card, collaborator_name, list_name, task_status, days_late, grupo, finalizada_para_flavia, feita) ==
    [task_id |-> IF "id" \in card.missing THEN "" ELSE card.id,
     collaborator_name |-> collaborator_name,
     task_name |-> IF "name" \in card.missing THEN "" ELSE card.name,
     list_name |-> list_name,
     due_date |-> _format_due_date(card.due),
     created_at |-> card.dateLastActivity,
     completed_at |-> IF task_status = "Concluída" THEN <<card.dateLastActivity>> ELSE <<>>,
     status |-> task_status,
     days_late |-> days_late,
     observations |-> IF card.desc # "" THEN card.desc ELSE list_name,
     grupo |-> grupo,
     etapa_atual |-> get_etapa_atual(list_name),
     finalizada_para_flavia |-> finalizada_para_flavia,
     feita |-> feita,
     em_revisao |-> is_em_revisao(list_name)]

\* list_obj['name'] if list_obj else 'Lista não encontrada'
report_list_name(card, lists) ==
    IF list_index(lists, card.idList) = 0 THEN "Lista não encontrada"
    ELSE lists[list_index(lists, card.idList)].name

\* card_members = [m for m in members if m['id'] in id_members]
card_members_of(card, members) ==
    LET assigned(m) == m.id \in card.idMembers
    IN  SelectSeq(members, assigned)

\* the set grupos_encontrados: the names of the groups the card's members are in
grupos_encontrados_of(card_members) ==
    {get_grupo_por_responsavel(card_members[i].username) : i \in 1..Len(card_members)}
        \ {None}

\* the list membros_sem_grupo
membros_sem_grupo_of(card_members) ==
    LET no_group(m) == get_grupo_por_responsavel(m.username) = None
    IN  SelectSeq(card_members, no_group)

\* the list membros_do_grupo: the card's members whose group is nome_grupo
membros_do_grupo_of(card_members, nome_grupo) ==
    LET in_group(m) == get_grupo_por_responsavel(m.username) = nome_grupo
    IN  SelectSeq(card_members, in_group)

\* the row of a card without idMembers
unassigned_report(card, lists, members) ==
    TaskReport(card, "Não atribuído", report_list_name(card, lists),
               get_task_status(card, lists, members),
               calculate_days_late(card), None, FALSE, FALSE)

\* a variant of group_reports that appends one row per member of the group
group_reports_per_member(card, lists, card_members, nome_grupo) ==
    LET membros_do_grupo == membros_do_grupo_of(card_members, nome_grupo)
    IN  [i \in 1..Len(membros_do_grupo) |->
            TaskReport(card, membros_do_grupo[i].fullName, report_list_name(card, lists),
                get_task_status_for_collaborator(card, membros_do_grupo[i].username, lists),
                calculate_days_late_for_collaborator(card, membros_do_grupo[i].username, lists),
                nome_grupo,
                is_finalizada_para_flavia(report_list_name(card, lists), nome_grupo),
                is_feita(report_list_name(card, lists), nome_grupo))]

\* what one iteration of "for nome_grupo in grupos_encontrados" appends
group_reports(card, lists, card_members, nome_grupo) ==
    LET membros_do_grupo == membros_do_grupo_of(card_members, nome_grupo)
        collaborator_names ==
            Join(", ", [i \in 1..Len(membros_do_grupo) |-> membros_do_grupo[i].fullName])
        primeiro_membro == membros_do_grupo[1]
        grupo == GRUPOS_MARKETING[grupo_index(nome_grupo)].name
    IN  IF grupo_index(nome_grupo) = 0 \/ Len(membros_do_grupo) = 0 THEN <<>>
        ELSE << TaskReport(card, collaborator_names, report_list_name(card, lists),
                    get_task_status_for_collaborator(card, primeiro_membro.username, lists),
                    calculate_days_late_for_collaborator(card, primeiro_membro.username, lists),
                    grupo,
                    is_finalizada_para_flavia(report_list_name(card, lists), grupo),
                    is_feita(report_list_name(card, lists), grupo)) >>

\* what one iteration of "for member in membros_sem_grupo" appends
member_report(card, lists, member) ==
    TaskReport(card, member.fullName, report_list_name(card, lists),
               get_task_status_for_collaborator(card, member.username, lists),
               calculate_days_late_for_collaborator(card, member.username, lists),
               None, FALSE, FALSE)

RECURSIVE all_group_reports(_, _, _, _)
\* the loop "for nome_grupo in grupos_encontrados", over the names in the order walked
all_group_reports(card, lists, card_members, names) ==
    IF Len(names) = 0 THEN <<>>
    ELSE group_reports(card, lists, card_members, Head(names))
         \o all_group_reports(card, lists, card_members, Tail(names))

\* the rows one iteration of the loop of generate_task_reports appends for a filtered card
card_reports(card, lists, members) ==
    IF card.idMembers = {} THEN << unassigned_report(card, lists, members) >>
    ELSE
    LET card_members == card_members_of(card, members)
        found(nome_grupo) == nome_grupo \in grupos_encontrados_of(card_members)
        \* a set of str is walked in the order of the process's hashes
        walk == SelectSeq(hash_order, found)
        membros_sem_grupo == membros_sem_grupo_of(card_members)
    IN  all_group_reports(card, lists, card_members, walk)
        \o [i \in 1..Len(membros_sem_grupo) |-> member_report(card, lists, membros_sem_grupo[i])]

RECURSIVE all_card_reports(_, _, _)
\* the loop of generate_task_reports over filtered_cards
all_card_reports(filtered_cards, lists, members) ==
    IF Len(filtered_cards) = 0 THEN <<>>
    ELSE card_reports(Head(filtered_cards), lists, members)
         \o all_card_reports(Tail(filtered_cards), lists, members)

\* a variant of generate_task_reports that a timestamp it cannot parse aborts: the
\* error leaves the loops and no row is returned
generate_task_reports_aborting(data, start_date, end_date) ==
    IF \E i \in 1..Len(data.cards) :
           \/ Truthy(data.cards[i].due) /\ ~Parses(data.cards[i].due)
           \/ Truthy(data.cards[i].dateLastActivity) /\ ~Parses(data.cards[i].dateLastActivity)
    THEN <<>>
    ELSE all_card_reports(
             filter_cards_by_date_range(data.cards, start_date, end_date, data.lists),
             data.lists, data.members)

generate_task_reports(data, start_date, end_date) ==
    all_card_reports(
        filter_cards_by_date_range(data.cards, start_date, end_date, data.lists),
        data.lists, data.members)

\* the elements of seq that are the first with their key, in order; keys[i] is the
\* key of seq[i]  (d = {}; for t in seq: if key(t) not in d: d[key(t)] = t; d.values())
first_by(seq, keys) ==
    LET first(i) == \A j \in 1..(i - 1) : keys[j] # keys[i]
        idx == SelectSeq([i \in 1..Len(seq) |-> i], first)
    IN  [k \in 1..Len(idx) |-> seq[idx[k]]]

\* [task.task_id for task in reports]
task_ids_of(reports) == [i \in 1..Len(reports) |-> reports[i].task_id]

\* len([t for t in tasks if t.status == status])
count_status(tasks, status) ==
    Cardinality({i \in 1..Len(tasks) : tasks[i].status = status})

\* a variant of collaborator_names_of that takes a comma-joined field as one name
collaborator_names_of_unsplit(collaborator_name) == << collaborator_name >>

\* the names a collaborator field stands for: itself, or the stripped parts of its split on ','
collaborator_names_of(collaborator_name) ==
    IF Contains(collaborator_name, ",")
    THEN LET parts == Split(collaborator_name, ",")
         IN  [i \in 1..Len(parts) |-> Strip(parts[i])]
    ELSE << collaborator_name >>

\* a variant of unique_group_tasks_of that keeps every row of the group
unique_group_tasks_of_rows(group_tasks) == group_tasks

\* unique_group_tasks = list(unique_group_tasks_map.values()): the first row of each task id
unique_group_tasks_of(group_tasks) == first_by(group_tasks, task_ids_of(group_tasks))

\* a variant of completed_with_due_of that keeps the done rows without a due date
completed_with_due_of_any_due(unique_group_tasks) ==
    LET done(t) == t.status = "Concluída"
    IN  SelectSeq(unique_group_tasks, done)

\* completed_with_due: the done rows whose due date is defined
completed_with_due_of(unique_group_tasks) ==
    LET with_due(t) == t.status = "Concluída" /\ t.due_date # <<"Não definida">>
    IN  SelectSeq(unique_group_tasks, with_due)

\* GroupReportSummary of the rows group_tasks (already restricted to one group)
group_summary(grupo, responsaveis, group_tasks) ==
    LET unique_group_tasks == unique_group_tasks_of(group_tasks)
        completed_with_due == completed_with_due_of(unique_group_tasks)
    IN  [grupo |-> grupo,
         responsaveis |-> responsaveis,
         total_tasks |-> Len(unique_group_tasks),
         completed_tasks |-> count_status(unique_group_tasks, "Concluída"),
         in_progress_tasks |-> count_status(unique_group_tasks, "Em Andamento"),
         late_tasks |-> count_status(unique_group_tasks, "Atrasada"),
         blocked_tasks |-> count_status(unique_group_tasks, "Bloqueada"),
         on_time_deliveries |->
             Cardinality({i \in 1..Len(completed_with_due) : completed_with_due[i].days_late = 0}),
         late_deliveries |->
             Cardinality({i \in 1..Len(completed_with_due) : completed_with_due[i].days_late > 0})]

\* a variant of unique_tasks_of where a later row of a task id replaces the earlier
\* one (unique_tasks_map[task.task_id] = task, unconditionally)
unique_tasks_of_last(reports) ==
    LET last(i) == \A j \in (i + 1)..Len(reports) : reports[j].task_id # reports[i].task_id
        first(i) == \A j \in 1..(i - 1) : reports[j].task_id # reports[i].task_id
        slot(i) == CHOOSE j \in 1..Len(reports) :
                       first(j) /\ reports[j].task_id = reports[i].task_id
        idx == SelectSeq([i \in 1..Len(reports) |-> i], first)
    IN  [k \in 1..Len(idx) |->
            reports[CHOOSE i \in 1..Len(reports) : last(i) /\ slot(i) = idx[k]]]

\* a variant of unique_tasks_of that counts every row: no deduplication by task id
unique_tasks_of_rows(reports) == reports

\* unique_tasks = list({task.task_id: task for task in reports}.values()), by first position
unique_tasks_of(reports) == first_by(reports, task_ids_of(reports))

\* a variant of with_sem_grupo that appends the 'Sem Grupo' summary in every case
with_sem_grupo_always(group_summaries, sem_grupo_tasks) ==
    Append(group_summaries, group_summary("Sem Grupo", <<>>, sem_grupo_tasks))

\* group_summaries after "if sem_grupo_tasks: ... group_summaries.append(...)"
with_sem_grupo(group_summaries, sem_grupo_tasks) ==
    IF Len(sem_grupo_tasks) > 0
    THEN Append(group_summaries, group_summary("Sem Grupo", <<>>, sem_grupo_tasks))
    ELSE group_summaries

generate_report_summary(reports) ==
    LET unique_tasks == unique_tasks_of(reports)
        late_tasks == count_status(unique_tasks, "Atrasada")
        unique_collaborators ==
            UNION { {collaborator_names_of(unique_tasks[i].collaborator_name)[k] :
                        k \in 1..Len(collaborator_names_of(unique_tasks[i].collaborator_name))} :
                    i \in 1..Len(unique_tasks) }
        of_group(g) == LET in_g(t) == t.grupo = GRUPOS_MARKETING[g].name
                       IN  SelectSeq(reports, in_g)
        no_group(t) == t.grupo = None
        sem_grupo_tasks == SelectSeq(reports, no_group)
        registry_summaries ==
            [g \in 1..Len(GRUPOS_MARKETING) |->
                group_summary(GRUPOS_MARKETING[g].name,
                              [r \in 1..Len(GRUPOS_MARKETING[g].responsaveis) |->
                                  GRUPOS_MARKETING[g].responsaveis[r].nome],
                              of_group(g))]
    IN  [total_tasks |-> Len(unique_tasks),
         completed_tasks |-> count_status(unique_tasks, "Concluída"),
         in_progress_tasks |-> count_status(unique_tasks, "Em Andamento"),
         late_tasks |-> late_tasks,
         overdue_tasks |-> late_tasks,
         blocked_tasks |-> count_status(unique_tasks, "Bloqueada"),
         total_collaborators |-> Cardinality(unique_collaborators),
         group_summaries |-> with_sem_grupo(registry_summaries, sem_grupo_tasks)]

\* one row per person a row names: a copy per stripped name of a comma-joined
\* collaborator field, the row itself otherwise
expand_task(task) ==
    IF Contains(task.collaborator_name, ",")
    THEN LET nomes == collaborator_names_of(task.collaborator_name)
         IN  [i \in 1..Len(nomes) |-> [task EXCEPT !.collaborator_name = nomes[i]]]
    ELSE << task >>

RECURSIVE expand_tasks(_)
\* the (collaborator, row) entries in the order the first loop of
\* generate_collaborator_reports appends them to collaborator_map
expand_tasks(reports) ==
    IF Len(reports) = 0 THEN <<>>
    ELSE expand_task(Head(reports)) \o expand_tasks(Tail(reports))

\* a variant of completion_rate_of that leaves the quotient as a ratio, not a percentage
completion_rate_of_ratio(completed_tasks, total_tasks) ==
    IF total_tasks > 0 THEN Fraction(completed_tasks, total_tasks) ELSE Fraction(0, 1)

\* (completed_tasks / total_tasks * 100) if total_tasks > 0 else 0, as an exact quotient
completion_rate_of(completed_tasks, total_tasks) ==
    IF total_tasks > 0 THEN Fraction(completed_tasks * 100, total_tasks) ELSE Fraction(0, 1)

\* a variant of task_key that tells a collaborator's rows apart by task id
task_key_by_id(task) == task.task_id

\* key = f"{task.task_name}-{task.grupo or 'no-group'}"
task_key(task) ==
    task.task_name \o "-" \o (IF task.grupo = None THEN "no-group" ELSE task.grupo)

\* a variant of status_rank that puts the done rows first
status_rank_done_first(task) ==
    IF task.status = "Concluída" THEN 0 ELSE IF task.status = "Atrasada" THEN 1 ELSE 2

\* 0 if t.status == 'Atrasada' else 1 if t.status == 'Concluída' else 2
status_rank(task) ==
    IF task.status = "Atrasada" THEN 0 ELSE IF task.status = "Concluída" THEN 1 ELSE 2

\* a variant of late_days_of that takes the lateness of rows of any status
late_days_of_any_status(unique_tasks) ==
    LET late(t) == t.days_late > 0
        late_rows == SelectSeq(unique_tasks, late)
    IN  [i \in 1..Len(late_rows) |-> late_rows[i].days_late]

\* late_days = [t.days_late for t in unique_tasks
\*              if t.days_late > 0 and t.status in ['Atrasada', 'Em Andamento']]
late_days_of(unique_tasks) ==
    LET really_late(t) == t.days_late > 0 /\ t.status \in {"Atrasada", "Em Andamento"}
        late_rows == SelectSeq(unique_tasks, really_late)
    IN  [i \in 1..Len(late_rows) |-> late_rows[i].days_late]

\* CollaboratorReport of one entry of collaborator_map
collaborator_report(collaborator_name, tasks) ==
    LET unique_tasks == first_by(tasks, [i \in 1..Len(tasks) |-> task_key(tasks[i])])
        total_tasks == Len(unique_tasks)
        completed_tasks == count_status(unique_tasks, "Concluída")
        late_days == late_days_of(unique_tasks)
        before(a, b) == \/ status_rank(a) < status_rank(b)
                        \/ status_rank(a) = status_rank(b) /\ StrLess(a.task_name, b.task_name)
    IN  [collaborator_name |-> collaborator_name,
         total_tasks |-> total_tasks,
         completed_tasks |-> completed_tasks,
         in_progress_tasks |-> count_status(unique_tasks, "Em Andamento"),
         pending_tasks |-> total_tasks - completed_tasks,
         late_tasks |-> count_status(unique_tasks, "Atrasada"),
         blocked_tasks |-> count_status(unique_tasks, "Bloqueada"),
         completion_rate |-> completion_rate_of(completed_tasks, total_tasks),
         average_days_late |-> IF Len(late_days) > 0
                               THEN Round(Sum(late_days), Len(late_days)) ELSE 0,
         tasks |-> sorted(unique_tasks,
                          [i \in 1..Len(unique_tasks) |->
                              Cardinality({j \in 1..Len(unique_tasks) :
                                              before(unique_tasks[j], unique_tasks[i])})])]

generate_collaborator_reports(reports) ==
    LET entries == expand_tasks(reports)
        name_of(t) == t.collaborator_name
        keys == first_by(entries, [i \in 1..Len(entries) |-> name_of(entries[i])])
        tasks_of(collaborator) == LET mine(t) == t.collaborator_name = collaborator
                                  IN  SelectSeq(entries, mine)
        unsorted == [k \in 1..Len(keys) |->
                        collaborator_report(keys[k].collaborator_name,
                                            tasks_of(keys[k].collaborator_name))]
        higher_rate(a, b) == FractionLess(b.completion_rate, a.completion_rate)
    IN  sorted(unsorted,
               [i \in 1..Len(unsorted) |->
                   Cardinality({j \in 1..Len(unsorted) : higher_rate(unsorted[j], unsorted[i])})])

RequiredFields == <<"cards", "lists", "members", "name">>

\* The error messages of validate_trello_data.  A parsed JSON value `data` is a
\* record: is_dict (a JSON object), present (the required keys it has),
\* well_typed (those holding a list, or a string for name), and the fields.
validate_errors(data) ==
    IF ~data.is_dict THEN << "Dados devem ser um objeto JSON válido" >>
    ELSE
    LET field_errors(field) ==
            IF field \notin data.present
            THEN << "Campo obrigatório '" \o field \o "' não encontrado" >>
            ELSE IF field # "name" /\ field \notin data.well_typed
            THEN << "Campo '" \o field \o "' deve ser uma lista" >>
            ELSE <<>>
    IN  field_errors(RequiredFields[1]) \o field_errors(RequiredFields[2])
        \o field_errors(RequiredFields[3]) \o field_errors(RequiredFields[4])
        \o (IF "name" \in data.present /\ "name" \in data.well_typed THEN <<>>
            ELSE << "Campo 'name' deve ser uma string" >>)

\* validate_trello_data(data) = <<is_valid, errors>>
validate_trello_data(data) == << Len(validate_errors(data)) = 0, validate_errors(data) >>

---------------------------------------------------------------------------
(* Inputs: a board, its cards, reporting windows                           *)

\* "L0" is the idList of a card whose list is not in the board's lists array
ListIds == {BoardLists[i].id : i \in 1..Len(BoardLists)} \cup {"L0"}

BoardMembers == <<
    [id |-> "m1", username |-> "jamillyfreitass", fullName |-> "Jamily Freitas"],
    [id |-> "m2", username |-> "leonardoferreiracardoso5", fullName |-> "Leo Cardoso"],
    [id |-> "m3", username |-> "fazstudioart", fullName |-> "Luiz"],
    [id |-> "m4", username |-> "externo", fullName |-> "Ana"],
    [id |-> "m5", username |-> "visitante", fullName |-> "Bia"]
>>

\* "m0" is a member id that is not in the board's members array
MemberIds == {BoardMembers[i].id : i \in 1..Len(BoardMembers)} \cup {"m0"}

Usernames == {BoardMembers[i].username : i \in 1..Len(BoardMembers)}

Timestamps == {NoTs, BadTs} \cup {IsoTs(d) : d \in Days}

\* the reporting windows tried
Windows == {w \in Days \X Days : w[1] <= w[2]}

\* the windows the session's sidebar is set to
SessionWindows == { <<2, MaxDay - 1>>, <<1, 1>> }

Card(id, name, idList, idMembers, due, dateLastActivity, closed) ==
    [id |-> id, name |-> name, desc |-> "", idList |-> idList, idMembers |-> idMembers,
     due |-> due, dateLastActivity |-> dateLastActivity, closed |-> closed, missing |-> {}]

\* the card as exported without these keys
Without(card, keys) ==
    [card EXCEPT !.missing = keys,
                 !.id = IF "id" \in keys THEN None ELSE @,
                 !.name = IF "name" \in keys THEN None ELSE @]

AllFields == {RequiredFields[i] : i \in 1..Len(RequiredFields)}

\* a well-formed export of the board with these cards
Board(cards) ==
    [is_dict |-> TRUE, present |-> AllFields, well_typed |-> AllFields,
     name |-> "Marketing", cards |-> cards, lists |-> BoardLists, members |-> BoardMembers]

NoCall == [op |-> "none", viewer |-> None, value |-> None]

\* init_session_state, before any upload: trello_data is None
NoData == [is_dict |-> FALSE, present |-> {}, well_typed |-> {},
           name |-> None, cards |-> <<>>, lists |-> <<>>, members |-> <<>>]

RegistryOrder == [g \in 1..Len(GRUPOS_MARKETING) |-> GRUPOS_MARKETING[g].name]

Reverse(seq) == [i \in 1..Len(seq) |-> seq[Len(seq) + 1 - i]]

\* the orders in which a set of group names is walked, one per process (str hashes are salted)
HashOrders == { RegistryOrder, Reverse(RegistryOrder) }

Inputs == <<trello_data, date_range, selected_groups, task_reports,
            collaborator_reports, report_summary, today, hash_order>>

\* the session variables, where no session runs
NoSession ==
    /\ selected_groups = {}
    /\ task_reports = <<>>
    /\ collaborator_reports = <<>>
    /\ report_summary = <<>>

TheCard == trello_data.cards[1]

---------------------------------------------------------------------------
(* SpecCard: the classifier and the window filter, each called once on a   *)
(* one-card board                                                          *)

InitCard ==
    /\ \E idList \in ListIds, due \in Timestamps, last \in Timestamps, closed \in BOOLEAN :
           trello_data = Board(<< Card("c1", "A", idList, {}, due, last, closed) >>)
    /\ date_range \in Windows
    /\ today = MaxDay - 1
    /\ hash_order = RegistryOrder
    /\ NoSession
    /\ ret = NoCall

FilterCards ==
    /\ ret = NoCall
    /\ ret' = [op |-> "filter_cards_by_date_range", viewer |-> None,
               value |-> filter_cards_by_date_range(trello_data.cards, date_range[1],
                                                    date_range[2], trello_data.lists)]
    /\ UNCHANGED Inputs

GetTaskStatus ==
    /\ ret = NoCall
    /\ ret' = [op |-> "get_task_status", viewer |-> None,
               value |-> get_task_status(TheCard, trello_data.lists, trello_data.members)]
    /\ UNCHANGED Inputs

GetTaskStatusForCollaborator ==
    \E u \in Usernames :
        /\ ret = NoCall
        /\ ret' = [op |-> "get_task_status_for_collaborator", viewer |-> u,
                   value |-> get_task_status_for_collaborator(TheCard, u, trello_data.lists)]
        /\ UNCHANGED Inputs

CalculateDaysLate ==
    /\ ret = NoCall
    /\ ret' = [op |-> "calculate_days_late", viewer |-> None,
               value |-> calculate_days_late(TheCard)]
    /\ UNCHANGED Inputs

CalculateDaysLateForCollaborator ==
    \E u \in Usernames :
        /\ ret = NoCall
        /\ ret' = [op |-> "calculate_days_late_for_collaborator", viewer |-> u,
                   value |-> calculate_days_late_for_collaborator(TheCard, u, trello_data.lists)]
        /\ UNCHANGED Inputs

NextCard ==
    \/ FilterCards
    \/ GetTaskStatus
    \/ GetTaskStatusForCollaborator
    \/ CalculateDaysLate
    \/ CalculateDaysLateForCollaborator

SpecCard == InitCard /\ [][NextCard]_vars

---------------------------------------------------------------------------
(* SpecRows: generate_task_reports called once on a one-card board         *)

AssigneeSets == {S \in SUBSET MemberIds : Cardinality(S) <= MaxAssignees}

InitRows ==
    /\ \E idList \in ListIds, idMembers \in AssigneeSets, due \in Timestamps,
          closed \in BOOLEAN :
           trello_data = Board(<< Card("c1", "A", idList, idMembers, due, IsoTs(2), closed) >>)
    /\ date_range = <<2, MaxDay - 1>>
    /\ today = MaxDay - 1
    /\ hash_order \in HashOrders
    /\ NoSession
    /\ ret = NoCall

GenerateTaskReports ==
    /\ ret = NoCall
    /\ ret' = [op |-> "generate_task_reports", viewer |-> None,
               value |-> generate_task_reports(trello_data, date_range[1], date_range[2])]
    /\ UNCHANGED Inputs

NextRows == GenerateTaskReports

SpecRows == InitRows /\ [][NextRows]_vars

---------------------------------------------------------------------------
(* SpecBatch: generate_task_reports called once on a two-card board: one   *)
(* card of any kind next to a card that is in the window                   *)

\* the card that is in the window whatever the other card is
OtherCard == Card("c1", "A", "L1", {"m1", "m2"}, NoTs, IsoTs(2), FALSE)

InitBatch ==
    /\ \E idList \in ListIds, idMembers \in {{}, {"m1"}, {"m3", "m4"}}, due \in Timestamps,
          last \in {NoTs, BadTs, IsoTs(1), IsoTs(2)}, closed \in BOOLEAN :
           LET card == Card("c9", "X", idList, idMembers, due, last, closed)
           IN  trello_data \in {Board(<<card, OtherCard>>), Board(<<OtherCard, card>>)}
    /\ date_range = <<2, MaxDay - 1>>
    /\ today = MaxDay - 1
    /\ hash_order = RegistryOrder
    /\ NoSession
    /\ ret = NoCall

SpecBatch == InitBatch /\ [][NextRows]_vars

---------------------------------------------------------------------------
(* Spec: the Streamlit session of src/app.py                               *)

\* the cards the session's boards are made of
SessionCards == {
    Card("c1", "A", "L1",  {"m1", "m2"},       NoTs,     IsoTs(2), FALSE),
    Card("c2", "B", "L10", {"m1", "m3", "m4", "m5"}, IsoTs(1), IsoTs(2), FALSE),
    Card("c3", "B", "L2",  {"m3"},                   IsoTs(2), IsoTs(1), FALSE),
    Card("c4", "B", "L7",  {},                       BadTs,    IsoTs(3), FALSE) }

RECURSIVE SeqsOf(_, _)
\* the sequences of at most n distinct elements of S
SeqsOf(S, n) ==
    IF n = 0 THEN { <<>> }
    ELSE { <<>> } \cup UNION { { <<x>> \o t : t \in SeqsOf(S \ {x}, n - 1) } : x \in S }

\* boards with a card that lacks its id, or its name
IncompleteBoards ==
    { Board(<< Without(Card("c5", "C", "L10", {}, NoTs, IsoTs(2), FALSE), {"id"}) >>),
      Board(<< Without(Card("c6", "D", "L10", {"m4"}, NoTs, IsoTs(2), FALSE), {"name"}) >>) }

\* the JSON values a user uploads: exports of boards, and values validation rejects
Uploads ==
    { Board(cards) : cards \in SeqsOf(SessionCards, MaxCards) }
    \cup IncompleteBoards
    \cup { [Board(<<>>) EXCEPT !.is_dict = FALSE, !.present = {}, !.well_typed = {}],
           [Board(<<>>) EXCEPT !.present = AllFields \ {"cards"}],
           [Board(<<>>) EXCEPT !.well_typed = AllFields \ {"lists"}],
           [Board(<<>>) EXCEPT !.present = AllFields \ {"name"}] }

AllGroups == {RegistryOrder[g] : g \in 1..Len(RegistryOrder)} \cup {"Sem Grupo"}

\* the selections of the group multiselect that are tried
GroupSelections == { AllGroups \ {"Sem Grupo"}, AllGroups, {"Grupo 2", "Sem Grupo"} }

DefaultWindowDays == 30

\* init_session_state
Init ==
    /\ trello_data = NoData
    /\ task_reports = <<>>
    /\ collaborator_reports = <<>>
    /\ report_summary = <<>>
    /\ selected_groups = AllGroups \ {"Sem Grupo"}
    /\ today = MaxDay - 1
    /\ date_range = <<today - DefaultWindowDays, today>>
    /\ hash_order \in HashOrders
    /\ ret = NoCall

\* a variant of filtered_reports that keeps every row without a group
filtered_reports_with_ungrouped(reports, groups) ==
    LET selected(report) == report.grupo = None \/ report.grupo \in groups
    IN  SelectSeq(reports, selected)

\* the rows process_trello_data keeps: those whose group is selected
filtered_reports(reports, groups) ==
    LET selected(report) ==
            (IF report.grupo = None THEN "Sem Grupo" ELSE report.grupo) \in groups
    IN  SelectSeq(reports, selected)

\* process_trello_data on the session holding snapshot `data`
process_trello_data(data) ==
    IF data = NoData
    THEN UNCHANGED <<task_reports, collaborator_reports, report_summary>>
    ELSE /\ task_reports' = filtered_reports(
                                 generate_task_reports(data, date_range'[1], date_range'[2]),
                                 selected_groups')
         /\ collaborator_reports' = generate_collaborator_reports(task_reports')
         /\ report_summary' = << generate_report_summary(task_reports') >>

\* a variant of process_uploaded_file that stores the snapshot before validating it
process_uploaded_file_store_first(data) ==
    /\ trello_data' = data
    /\ IF ~validate_trello_data(data)[1]
       THEN UNCHANGED <<task_reports, collaborator_reports, report_summary>>
       ELSE process_trello_data(data)

\* process_uploaded_file on the parsed upload `data`
process_uploaded_file(data) ==
    IF ~validate_trello_data(data)[1]
    THEN UNCHANGED <<trello_data, task_reports, collaborator_reports, report_summary>>
    ELSE /\ trello_data' = data
         /\ process_trello_data(data)

\* main() with a file in the uploader: process_uploaded_file
ProcessUploadedFile ==
    \E data \in Uploads :
        /\ UNCHANGED <<date_range, selected_groups, today, hash_order, ret>>
        /\ process_uploaded_file(data)

\* main() after the dates of the sidebar were changed
SetDateRange ==
    \E w \in SessionWindows :
        /\ date_range' = w
        /\ UNCHANGED <<trello_data, selected_groups, task_reports, collaborator_reports,
                       report_summary, today, hash_order, ret>>

\* main() after the group multiselect was changed
SetSelectedGroups ==
    \E groups \in GroupSelections :
        /\ selected_groups' = groups
        /\ UNCHANGED <<trello_data, date_range, task_reports, collaborator_reports,
                       report_summary, today, hash_order, ret>>

\* main() with the "Reprocessar Dados" button pressed
Reprocess ==
    /\ trello_data # NoData
    /\ UNCHANGED <<trello_data, date_range, selected_groups, today, hash_order, ret>>
    /\ process_trello_data(trello_data)

Next ==
    \/ ProcessUploadedFile
    \/ SetDateRange
    \/ SetSelectedGroups
    \/ Reprocess

Spec == Init /\ [][Next]_vars

---------------------------------------------------------------------------
(* SpecUpload: the session, with what each process_uploaded_file returned  *)

\* main() with a file in the uploader, the value process_uploaded_file returns kept
UploadFile ==
    \E data \in Uploads :
        /\ UNCHANGED <<date_range, selected_groups, today, hash_order>>
        /\ process_uploaded_file(data)
        /\ ret' = [op |-> "process_uploaded_file", viewer |-> None,
                   value |-> validate_trello_data(data)[1]]

NextUpload ==
    \/ UploadFile
    \/ SetSelectedGroups

SpecUpload == Init /\ [][NextUpload]_vars

---------------------------------------------------------------------------
(* SpecValidate: validate_trello_data called once on a parsed JSON value   *)

\* the parsed JSON values: a non-object, or an object with some of the required
\* keys, some of those holding a value of the required type
JsonShapes ==
    { [Board(<<>>) EXCEPT !.is_dict = FALSE, !.present = {}, !.well_typed = {}] }
    \cup { [Board(<<>>) EXCEPT !.present = present, !.well_typed = well_typed] :
             present \in SUBSET AllFields, well_typed \in SUBSET AllFields }

InitValidate ==
    /\ trello_data \in {data \in JsonShapes : data.well_typed \subseteq data.present}
    /\ date_range = <<2, MaxDay - 1>>
    /\ today = MaxDay - 1
    /\ hash_order = RegistryOrder
    /\ NoSession
    /\ ret = NoCall

ValidateTrelloData ==
    /\ ret = NoCall
    /\ ret' = [op |-> "validate_trello_data", viewer |-> None,
               value |-> validate_trello_data(trello_data)]
    /\ UNCHANGED Inputs

NextValidate == ValidateTrelloData

SpecValidate == InitValidate /\ [][NextValidate]_vars

---------------------------------------------------------------------------
(* SpecTwice: the three generators run on a one-card board, and run again  *)
(* on the same board, window and current date, by this process or another  *)

InitTwice ==
    /\ \E idList \in {"L1", "L2", "L10"}, idMembers \in AssigneeSets, due \in {NoTs, IsoTs(1)} :
           trello_data = Board(<< Card("c1", "A", idList, idMembers, due, IsoTs(2), FALSE) >>)
    /\ date_range = <<2, MaxDay - 1>>
    /\ today = MaxDay - 1
    /\ hash_order \in HashOrders
    /\ NoSession
    /\ ret = NoCall

\* the first run; its rows, collaborator reports and summary are kept
RunReports ==
    /\ report_summary = <<>>
    /\ task_reports' = generate_task_reports(trello_data, date_range[1], date_range[2])
    /\ collaborator_reports' = generate_collaborator_reports(task_reports')
    /\ report_summary' = << generate_report_summary(task_reports') >>
    /\ UNCHANGED <<trello_data, date_range, selected_groups, today, hash_order, ret>>

\* the interpreter is started anew: the hashes of str are salted per process
NewProcess ==
    /\ report_summary # <<>>
    /\ ret = NoCall
    /\ hash_order' \in HashOrders
    /\ UNCHANGED <<trello_data, date_range, selected_groups, task_reports,
                   collaborator_reports, report_summary, today, ret>>

\* the second run, on the same snapshot, window and current date
RunReportsAgain ==
    /\ report_summary # <<>>
    /\ ret = NoCall
    /\ LET rows == generate_task_reports(trello_data, date_range[1], date_range[2])
       IN  ret' = [op |-> "second_run", viewer |-> None,
                   value |-> << rows, generate_collaborator_reports(rows),
                                generate_report_summary(rows) >>]
    /\ UNCHANGED Inputs

NextTwice ==
    \/ RunReports
    \/ NewProcess
    \/ RunReportsAgain

SpecTwice == InitTwice /\ [][NextTwice]_vars

---------------------------------------------------------------------------
(* SpecPar: two calls of generate_task_reports on one snapshot, with       *)
(* different windows, their steps interleaved in any order                 *)

\* a variant of snapshot_after_step where the filter's result is stored back into
\* the snapshot (data['cards'] = filtered_cards)
snapshot_narrowed_to_filtered(data, filtered_cards) ==
    [data EXCEPT !.cards = filtered_cards]

\* the snapshot after a step of generate_task_reports: cards, lists and members are
\* read from data and no statement assigns into them
snapshot_after_step(data, filtered_cards) == data

\* the locals of a call that has not run yet
NewCall(window) ==
    [start_date |-> window[1], end_date |-> window[2], pc |-> "filter",
     filtered_cards |-> <<>>, reports |-> <<>>]

Calls == ret.value

InitPar ==
    /\ \E cards \in SeqsOf(SessionCards, MaxCards) : trello_data = Board(cards)
    /\ \E w1 \in Windows, w2 \in Windows :
           /\ w1 # w2
           /\ ret = [op |-> "generate_task_reports", viewer |-> None,
                     value |-> << NewCall(w1), NewCall(w2) >>]
    /\ date_range = <<2, MaxDay - 1>>
    /\ today = MaxDay - 1
    /\ hash_order = RegistryOrder
    /\ NoSession

\* call k runs filter_cards_by_date_range
CallFilter(k) ==
    /\ Calls[k].pc = "filter"
    /\ LET filtered_cards ==
               filter_cards_by_date_range(trello_data.cards, Calls[k].start_date,
                                          Calls[k].end_date, trello_data.lists)
       IN  /\ ret' = [ret EXCEPT !.value[k].filtered_cards = filtered_cards,
                                 !.value[k].pc = "loop"]
           /\ trello_data' = snapshot_after_step(trello_data, filtered_cards)

\* call k runs one iteration of "for card in filtered_cards"
CallLoop(k) ==
    /\ Calls[k].pc = "loop"
    /\ Calls[k].filtered_cards # <<>>
    /\ ret' = [ret EXCEPT
                 !.value[k].reports =
                     @ \o card_reports(Head(Calls[k].filtered_cards),
                                       trello_data.lists, trello_data.members),
                 !.value[k].filtered_cards = Tail(@)]
    /\ trello_data' = snapshot_after_step(trello_data, Calls[k].filtered_cards)

\* call k returns its reports
CallReturn(k) ==
    /\ Calls[k].pc = "loop"
    /\ Calls[k].filtered_cards = <<>>
    /\ ret' = [ret EXCEPT !.value[k].pc = "done"]
    /\ UNCHANGED trello_data

NextPar ==
    \E k \in {1, 2} :
        /\ \/ CallFilter(k)
           \/ CallLoop(k)
           \/ CallReturn(k)
        /\ UNCHANGED <<date_range, selected_groups, task_reports, collaborator_reports,
                       report_summary, today, hash_order>>

SpecPar == InitPar /\ [][NextPar]_vars

---------------------------------------------------------------------------
(* SpecSummary: generate_report_summary called once on a list of rows      *)

\* a TaskReport with these values in the fields the aggregators read
Row(task_id, task_name, collaborator_name, status, days_late, due_date, grupo) ==
    [task_id |-> task_id,
     collaborator_name |-> collaborator_name,
     task_name |-> task_name,
     list_name |-> "BACKLOG",
     due_date |-> due_date,
     created_at |-> IsoTs(2),
     completed_at |-> IF status = "Concluída" THEN <<IsoTs(2)>> ELSE <<>>,
     status |-> status,
     days_late |-> days_late,
     observations |-> "BACKLOG",
     grupo |-> grupo,
     etapa_atual |-> "BACKLOG",
     finalizada_para_flavia |-> FALSE,
     feita |-> FALSE,
     em_revisao |-> FALSE]

\* the sequences of at most n elements of S
RowSeqs(S, n) == UNION { [1..m -> S] : m \in 0..n }

\* the rows the summary is tried on: two task ids; rows without a group naming one
\* person and rows of 'Grupo 1' naming two; done with and without a due date, on
\* time and late, late, and a status the totals do not count; in progress and blocked
SummaryRows ==
    { Row(id, "A", "Ana", status, 0, <<"Não definida">>, None) :
        id \in {"t1", "t2"}, status \in {"Em Andamento", "Bloqueada"} }
    \cup
    { Row(id, "A", who[2], kind[1], kind[3], kind[2], who[1]) :
        id \in {"t1", "t2"},
        who \in { <<None, "Ana">>, <<"Grupo 1", "Ana, Bia">> },
        kind \in { <<"Concluída", <<"Não definida">>, 0>>,
                   <<"Concluída", <<"%d/%m/%Y", 1>>, 0>>,
                   <<"Concluída", <<"%d/%m/%Y", 1>>, 2>>,
                   <<"Atrasada", <<"%d/%m/%Y", 1>>, 2>>,
                   <<"Planejamento", <<"Não definida">>, 0>> } }

InitSummary ==
    /\ task_reports \in RowSeqs(SummaryRows, MaxRows)
    /\ trello_data = NoData
    /\ date_range = <<2, MaxDay - 1>>
    /\ today = MaxDay - 1
    /\ hash_order = RegistryOrder
    /\ selected_groups = {}
    /\ collaborator_reports = <<>>
    /\ report_summary = <<>>
    /\ ret = NoCall

GenerateReportSummary ==
    /\ ret = NoCall
    /\ ret' = [op |-> "generate_report_summary", viewer |-> None,
               value |-> generate_report_summary(task_reports)]
    /\ UNCHANGED Inputs

NextSummary == GenerateReportSummary

SpecSummary == InitSummary /\ [][NextSummary]_vars

---------------------------------------------------------------------------
(* SpecCollab: generate_collaborator_reports called once on a list of rows *)

\* the rows the collaborator reports are tried on: two task names; rows without a
\* group naming one person, late, in progress with and without lateness, and done
\* and blocked with a lateness; rows of 'Grupo 1' naming two persons, late, in
\* progress and done
CollabRows ==
    { Row("t1", name, "Ana", kind[1], kind[2], <<"%d/%m/%Y", 1>>, None) :
        name \in {"A", "B"},
        kind \in { <<"Atrasada", 2>>, <<"Em Andamento", 1>>, <<"Em Andamento", 0>>,
                   <<"Concluída", 2>>, <<"Bloqueada", 1>> } }
    \cup
    { Row("t1", name, "Ana, Bia", kind[1], kind[2], <<"%d/%m/%Y", 1>>, "Grupo 1") :
        name \in {"A", "B"},
        kind \in { <<"Atrasada", 2>>, <<"Em Andamento", 1>>, <<"Concluída", 2>> } }

InitCollab ==
    /\ task_reports \in RowSeqs(CollabRows, MaxRows)
    /\ trello_data = NoData
    /\ date_range = <<2, MaxDay - 1>>
    /\ today = MaxDay - 1
    /\ hash_order = RegistryOrder
    /\ selected_groups = {}
    /\ collaborator_reports = <<>>
    /\ report_summary = <<>>
    /\ ret = NoCall

GenerateCollaboratorReports ==
    /\ ret = NoCall
    /\ ret' = [op |-> "generate_collaborator_reports", viewer |-> None,
               value |-> generate_collaborator_reports(task_reports)]
    /\ UNCHANGED Inputs

NextCollab == GenerateCollaboratorReports

SpecCollab == InitCollab /\ [][NextCollab]_vars

---------------------------------------------------------------------------
(* Properties                                                              *)

\* the card's list is in the snapshot's lists array
ListFound(card) == \E i \in 1..Len(trello_data.lists) : trello_data.lists[i].id = card.idList

\* the name of the card's list as the rules read it: upper-cased and stripped
\* ("" when the list is not found)
ListNameOf(card) ==
    IF ListFound(card)
    THEN Strip(Upper(trello_data.lists[
             CHOOSE i \in 1..Len(trello_data.lists) : trello_data.lists[i].id = card.idList].name))
    ELSE ""

HasAny(name, keywords) == \E kw \in keywords : Contains(name, kw)

HasAll(name, keywords) == \A kw \in keywords : Contains(name, kw)

DoneKeywords == {"FEITO", "FEITOS", "CONCLUÍ", "FINALIZADO", "COMPLETO", "DONE", "FINISHED"}

ContentList == "EM PROCESSO DE CONTEÚDO"

InDoneList(card) == ListFound(card) /\ HasAny(ListNameOf(card), DoneKeywords)

InWindow(ts) == ts.kind = "iso" /\ date_range[1] <= ts.day /\ ts.day <= date_range[2]

DueBeforeToday(card) == card.due.kind = "iso" /\ card.due.day < today

\* the card passes the window filter
Survives(card) ==
    filter_includes(card, date_range[1], date_range[2], trello_data.lists)

RowsReturned == ret.op = "generate_task_reports"

Rows == ret.value

\* the positions in the members array of the card's assignees that are in group g
GroupMembersOnCard(card, g) ==
    {i \in 1..Len(trello_data.members) :
        /\ trello_data.members[i].id \in card.idMembers
        /\ \E r \in 1..Len(GRUPOS_MARKETING[g].responsaveis) :
               GRUPOS_MARKETING[g].responsaveis[r].username = trello_data.members[i].username}

RECURSIVE JoinedNames(_)
\* the display names of the members at these positions, in order, joined with ', '
JoinedNames(positions) ==
    IF positions = {} THEN ""
    ELSE LET i == CHOOSE p \in positions : \A q \in positions : p <= q
         IN  IF positions = {i} THEN trello_data.members[i].fullName
             ELSE trello_data.members[i].fullName \o ", " \o JoinedNames(positions \ {i})

RowsOfGroup(g) == {k \in 1..Len(Rows) : Rows[k].grupo = GRUPOS_MARKETING[g].name}

\* C1: a filtered card with two or more assignees of one registry group gets exactly
\* one row carrying that group, and the row's collaborator field is the ', '-joined
\* display names of all the card's assignees of that group.
C1_OneRowPerGroup ==
    RowsReturned /\ Survives(TheCard) =>
        \A g \in 1..Len(GRUPOS_MARKETING) :
            Cardinality(GroupMembersOnCard(TheCard, g)) >= 2 =>
                /\ Cardinality(RowsOfGroup(g)) = 1
                /\ \A k \in RowsOfGroup(g) :
                       Rows[k].collaborator_name = JoinedNames(GroupMembersOnCard(TheCard, g))

C1_Witness ==
    /\ RowsReturned
    /\ TheCard.idMembers = {"m1", "m2"}
    /\ Len(Rows) = 1
    /\ Rows[1].grupo = "Grupo 1"
    /\ Rows[1].collaborator_name = "Jamily Freitas, Leo Cardoso"

\* the assignees of the card that the members array resolves
ResolvedAssignees(card) ==
    {i \in 1..Len(trello_data.members) : trello_data.members[i].id \in card.idMembers}

GroupsOnCard(card) ==
    {g \in 1..Len(GRUPOS_MARKETING) : GroupMembersOnCard(card, g) # {}}

\* the assigned member ids that belong to no group
UngroupedIds(card) ==
    {id \in card.idMembers :
        \A g \in 1..Len(GRUPOS_MARKETING) : \A i \in GroupMembersOnCard(card, g) :
            trello_data.members[i].id # id}

\* the row count of the claim, a member id counting as an assigned member
RowCountByIds(card) ==
    IF card.idMembers = {} THEN 1
    ELSE Cardinality(GroupsOnCard(card)) + Cardinality(UngroupedIds(card))

\* the row count of the claim, only the ids the members array resolves counting as
\* assigned members
RowCountByResolved(card) ==
    IF ResolvedAssignees(card) = {} THEN 1
    ELSE Cardinality(GroupsOnCard(card))
         + Cardinality({i \in ResolvedAssignees(card) :
                           \A g \in 1..Len(GRUPOS_MARKETING) : i \notin GroupMembersOnCard(card, g)})

\* C2: a filtered card gets exactly 1 row (collaborator 'Não atribuído', group none,
\* status and lateness of the viewer-agnostic classifier) when it has no assigned
\* members, otherwise (distinct registry groups among its assigned members) +
\* (its assigned members in no group) rows, under either reading of "assigned".
C2_RowCount ==
    RowsReturned /\ Survives(TheCard) =>
        /\ Len(Rows) \in {RowCountByIds(TheCard), RowCountByResolved(TheCard)}
        /\ TheCard.idMembers = {} =>
               /\ Rows[1].collaborator_name = "Não atribuído"
               /\ Rows[1].grupo = None
               /\ Rows[1].status = get_task_status(TheCard, trello_data.lists, trello_data.members)
               /\ Rows[1].days_late = calculate_days_late(TheCard)

\* C3: total_tasks of the summary is the number of distinct task ids among the rows
\* that passed the group filter, not the number of rows.
C3_TotalTasksCountsIds ==
    report_summary # <<>> =>
        report_summary[1].total_tasks
            = Cardinality({task_reports[k].task_id : k \in 1..Len(task_reports)})

C3_Witness ==
    /\ report_summary # <<>>
    /\ report_summary[1].total_tasks = 2
    /\ Len(task_reports) = 3
    /\ "Sem Grupo" \notin selected_groups

FilterReturned == ret.op = "filter_cards_by_date_range"

\* C4: a non-archived card in a done list is included iff it has a due timestamp
\* whose date is in [start, end]; its last-activity date never includes it.
C4_DoneListByDue ==
    FilterReturned /\ ~TheCard.closed /\ InDoneList(TheCard) =>
        ret.value = IF InWindow(TheCard.due) THEN << TheCard >> ELSE <<>>

C4_Witness ==
    /\ FilterReturned
    /\ ~TheCard.closed
    /\ InDoneList(TheCard)
    /\ TheCard.due = NoTs
    /\ InWindow(TheCard.dateLastActivity)
    /\ ret.value = <<>>

\* C5: a non-archived card not in a done list is included iff it has a last-activity
\* timestamp whose date is in [start, end]; its due date plays no part.
C5_OpenListByActivity ==
    FilterReturned /\ ~TheCard.closed /\ ~InDoneList(TheCard) =>
        ret.value = IF InWindow(TheCard.dateLastActivity) THEN << TheCard >> ELSE <<>>

C5_Witness ==
    /\ FilterReturned
    /\ ~TheCard.closed
    /\ ~InDoneList(TheCard)
    /\ InWindow(TheCard.due)
    /\ TheCard.dateLastActivity.kind = "iso"
    /\ ~InWindow(TheCard.dateLastActivity)
    /\ ret.value = <<>>

\* the status the list-name -> status table maps the name to (None: no entry)
TableStatus(name) ==
    IF \E k \in 1..Len(LIST_STATUS_MAP) : LIST_STATUS_MAP[k][1] = name
    THEN LIST_STATUS_MAP[CHOOSE k \in 1..Len(LIST_STATUS_MAP) : LIST_STATUS_MAP[k][1] = name][2]
    ELSE None

\* the rules on the list name, as <<condition, label>> pairs in priority order
ListNameRules(card, name) == <<
    << HasAny(name, DoneKeywords), "Concluída" >>,
    << HasAll(name, {"AGUARDANDO", "RETORNO", "TERCEIRO"}), "Concluída" >>,
    << TableStatus(name) # None,
       IF TableStatus(name) # "Concluída" /\ DueBeforeToday(card) THEN "Atrasada"
       ELSE TableStatus(name) >>,
    << HasAny(name, {"BLOQUEADA", "PARADA", "AGUARDANDO"}), "Bloqueada" >>,
    << HasAny(name, {"PLANEJ", "PLAN"}), "Planejamento" >>,
    << HasAny(name, {"RECORREN"}), "Recorrente" >>,
    << DueBeforeToday(card), "Atrasada" >>,
    << TRUE, "Em Andamento" >> >>

\* the label of the first rule whose condition holds
FirstMatch(rules) ==
    rules[CHOOSE i \in 1..Len(rules) : rules[i][1] /\ \A j \in 1..(i - 1) : ~rules[j][1]][2]

StatusReturned == ret.op = "get_task_status"

\* C6, as stated: get_task_status returns the label of the first matching rule of:
\* archived -> Done; done keyword -> Done; AGUARDANDO+RETORNO+TERCEIRO -> Done; table
\* entry -> its status, Late when that is not Done and the due date is before today;
\* BLOQUEADA/PARADA/AGUARDANDO -> Blocked; PLANEJ/PLAN -> Planning; RECORREN ->
\* Recurring; due before today -> Late; otherwise In-Progress.
C6_RuleOrder_AsStated ==
    StatusReturned =>
        ret.value = FirstMatch(<< << TheCard.closed, "Concluída" >> >>
                               \o ListNameRules(TheCard, ListNameOf(TheCard)))

\* C6, amended: the same order with one more rule right after "archived": a card
\* whose list id is not in the lists array -> In-Progress, whatever its due date.
C6_RuleOrder ==
    StatusReturned =>
        ret.value = FirstMatch(<< << TheCard.closed, "Concluída" >>,
                                  << ~ListFound(TheCard), "Em Andamento" >> >>
                               \o ListNameRules(TheCard, ListNameOf(TheCard)))

C6_Witness ==
    /\ StatusReturned
    /\ ~TheCard.closed
    /\ ~ListFound(TheCard)
    /\ DueBeforeToday(TheCard)
    /\ ret.value = "Em Andamento"

\* the card's only assignee is a member of the board who is a content creator
SoleCreator(card) ==
    \E i \in 1..Len(trello_data.members) :
        /\ card.idMembers = {trello_data.members[i].id}
        /\ trello_data.members[i].username \in CONTENT_CREATORS

\* C7: the row of a card whose sole assignee is a content creator is In-Progress (Late
\* when its due date is before today) while the card is in 'EM PROCESSO DE CONTEÚDO',
\* and Done when the card is in any other list of the board.
C7_ContentCreatorRule ==
    RowsReturned /\ Survives(TheCard) /\ SoleCreator(TheCard) /\ ListFound(TheCard) =>
        /\ Len(Rows) = 1
        /\ Rows[1].status =
               IF ListNameOf(TheCard) # ContentList THEN "Concluída"
               ELSE IF DueBeforeToday(TheCard) THEN "Atrasada"
               ELSE "Em Andamento"

C7_Witness ==
    /\ RowsReturned
    /\ SoleCreator(TheCard)
    /\ TheCard.idList = "L7"
    /\ DueBeforeToday(TheCard)
    /\ Len(Rows) = 1
    /\ Rows[1].status = "Concluída"

\* the username of the member whose handle drives a row's status and lateness: the
\* first of the card's assignees in the row's group, the member the row names when
\* it has no group, None for the row of an unassigned card
DriverOf(card, row) ==
    LET of_group == UNION {GroupMembersOnCard(card, g) :
                              g \in {h \in 1..Len(GRUPOS_MARKETING) :
                                        GRUPOS_MARKETING[h].name = row.grupo}}
        named == {i \in ResolvedAssignees(card) :
                     trello_data.members[i].fullName = row.collaborator_name}
    IN  IF of_group # {}
        THEN trello_data.members[CHOOSE i \in of_group : \A j \in of_group : i <= j].username
        ELSE IF row.grupo = None /\ named # {}
        THEN trello_data.members[CHOOSE i \in named : TRUE].username
        ELSE None

\* the row's driving member is a content creator and the card has left the content list
CreatorLeftContent(card, row) ==
    DriverOf(card, row) \in CONTENT_CREATORS /\ ListNameOf(card) # ContentList

\* C8: days_late of every row is max(0, today - due date) in calendar days, and 0 when
\* the card is archived, has no (readable) due date, or the row's driving member is a
\* content creator and the card is no longer in the content list.
C8_DaysLate ==
    RowsReturned =>
        \A k \in 1..Len(Rows) :
            Rows[k].days_late =
                IF TheCard.closed \/ TheCard.due.kind # "iso" \/ CreatorLeftContent(TheCard, Rows[k])
                THEN 0
                ELSE IF today - TheCard.due.day > 0 THEN today - TheCard.due.day ELSE 0

C8_Witness ==
    /\ RowsReturned
    /\ DueBeforeToday(TheCard)
    /\ \E k \in 1..Len(Rows) :
           CreatorLeftContent(TheCard, Rows[k]) /\ Rows[k].days_late = 0
    /\ \E k \in 1..Len(Rows) :
           ~CreatorLeftContent(TheCard, Rows[k])
           /\ Rows[k].days_late = today - TheCard.due.day

\* C9, as stated: a non-archived card whose due date is d > 0 days before today and
\* whose list is not a done list has status Late and lateness d.
C9_OverdueIsLate_AsStated ==
    RowsReturned /\ ~TheCard.closed /\ DueBeforeToday(TheCard) /\ ~InDoneList(TheCard) =>
        \A k \in 1..Len(Rows) :
            Rows[k].status = "Atrasada" /\ Rows[k].days_late = today - TheCard.due.day

\* the list-name rules send an overdue card with this list name to Late: the name has
\* no done keyword, is not a third-party wait, and is in the table or has none of
\* the Blocked, Planning and Recurring keywords
LateByListName(name) ==
    /\ ~HasAny(name, DoneKeywords)
    /\ ~HasAll(name, {"AGUARDANDO", "RETORNO", "TERCEIRO"})
    /\ \/ TableStatus(name) # None
       \/ ~HasAny(name, {"BLOQUEADA", "PARADA", "AGUARDANDO", "PLANEJ", "PLAN", "RECORREN"})

\* C9, amended: such a card has lateness d on every row, and status Late when its
\* list is in the snapshot and no list-name rule before the due-date rule settles
\* the status; except the rows driven by a content creator once the card has left
\* the content list, which have lateness 0 and, the list being found, status Done.
C9_OverdueIsLate ==
    RowsReturned /\ ~TheCard.closed /\ DueBeforeToday(TheCard) /\ ~InDoneList(TheCard) =>
        \A k \in 1..Len(Rows) :
            IF CreatorLeftContent(TheCard, Rows[k])
            THEN /\ Rows[k].days_late = 0
                 /\ ListFound(TheCard) => Rows[k].status = "Concluída"
            ELSE /\ Rows[k].days_late = today - TheCard.due.day
                 /\ ListFound(TheCard) /\ LateByListName(ListNameOf(TheCard)) =>
                        Rows[k].status = "Atrasada"

C9_Witness ==
    /\ RowsReturned
    /\ TheCard.idList = "L5"
    /\ TheCard.due = IsoTs(1)
    /\ Len(Rows) = 1
    /\ Rows[1].status = "Atrasada"
    /\ Rows[1].days_late = today - 1

\* C10: every filtered card has at least one row, also when its list id or its member
\* ids are not in the snapshot: the miss is recovered with 'Lista não encontrada' or
\* 'Não atribuído'.
C10_RowForEveryCard ==
    RowsReturned /\ Survives(TheCard) =>
        /\ Len(Rows) >= 1
        /\ ~ListFound(TheCard) => \A k \in 1..Len(Rows) : Rows[k].list_name = "Lista não encontrada"
        /\ ResolvedAssignees(TheCard) = {} =>
               \A k \in 1..Len(Rows) : Rows[k].collaborator_name = "Não atribuído"

Summary == report_summary[1]

\* the stored rows a group summary is about: those of its group, the rows without
\* a group for 'Sem Grupo'
RowsOfSummary(gs) ==
    {k \in 1..Len(task_reports) :
        task_reports[k].grupo = (IF gs.grupo = "Sem Grupo" THEN None ELSE gs.grupo)}

\* C11: total_tasks of every group summary is the number of distinct task ids among
\* the rows of that group, so a task with rows in k groups counts 1 in each of the
\* k summaries and 1 in the board-wide total_tasks.
C11_GroupTotalsCountIds ==
    report_summary # <<>> =>
        \A g \in 1..Len(Summary.group_summaries) :
            Summary.group_summaries[g].total_tasks
                = Cardinality({task_reports[k].task_id :
                                  k \in RowsOfSummary(Summary.group_summaries[g])})

C11_Witness ==
    /\ report_summary # <<>>
    /\ Summary.total_tasks = 1
    /\ Len(task_reports) = 4
    /\ Cardinality({g \in 1..Len(Summary.group_summaries) :
                       Summary.group_summaries[g].total_tasks = 1}) = 3
    /\ \E g \in 1..Len(Summary.group_summaries) :
           /\ Summary.group_summaries[g].grupo = "Sem Grupo"
           /\ Cardinality(RowsOfSummary(Summary.group_summaries[g])) = 2

\* C12: completion_rate of every collaborator report is completed_tasks / total_tasks
\* x 100, lies in [0, 100], and is 0 when total_tasks is 0.
C12_CompletionRate ==
    \A c \in 1..Len(collaborator_reports) :
        LET report == collaborator_reports[c]
            rate == report.completion_rate
        IN  /\ rate.den > 0
            /\ rate.num * report.total_tasks = report.completed_tasks * 100 * rate.den
            /\ 0 <= rate.num /\ rate.num <= 100 * rate.den
            /\ report.total_tasks = 0 => rate.num = 0

C12_Witness ==
    \E c \in 1..Len(collaborator_reports) :
        /\ collaborator_reports[c].total_tasks = 2
        /\ collaborator_reports[c].completed_tasks = 1
        /\ collaborator_reports[c].completion_rate = [num |-> 50, den |-> 1]

\* the ', '-joined collaborator field names this person
NamedIn(person, field) == Contains(", " \o field \o ", ", ", " \o person \o ", ")

\* the positions of the stored rows that name the person
RowsNaming(person) ==
    {k \in 1..Len(task_reports) : NamedIn(person, task_reports[k].collaborator_name)}

\* row k is the first of the person's rows with its (task name, group) pair
FirstOfPair(person, k) ==
    \A j \in RowsNaming(person) :
        j < k => \/ task_reports[j].task_name # task_reports[k].task_name
                 \/ task_reports[j].grupo # task_reports[k].grupo

\* C13: every row is copied to each person its collaborator field names, the other
\* fields kept, and a person's copies are deduplicated by (task name, group), the
\* first kept: total_tasks is the number of distinct (task name, group) pairs among
\* the person's rows, whatever their task ids.
C13_DedupeByNameAndGroup ==
    /\ \A k \in 1..Len(task_reports) :
           \E c \in 1..Len(collaborator_reports) :
               k \in RowsNaming(collaborator_reports[c].collaborator_name)
    /\ \A c \in 1..Len(collaborator_reports) :
           LET report == collaborator_reports[c]
               person == report.collaborator_name
               kept == {k \in RowsNaming(person) : FirstOfPair(person, k)}
           IN  /\ report.total_tasks
                      = Cardinality({ <<task_reports[k].task_name, task_reports[k].grupo>> :
                                         k \in RowsNaming(person) })
               /\ Len(report.tasks) = report.total_tasks
               /\ {report.tasks[i] : i \in 1..Len(report.tasks)}
                      = {[task_reports[k] EXCEPT !.collaborator_name = person] : k \in kept}

C13_Witness ==
    \E c \in 1..Len(collaborator_reports) :
        LET person == collaborator_reports[c].collaborator_name
        IN  /\ collaborator_reports[c].total_tasks = 1
            /\ collaborator_reports[c].tasks[1].task_id = "c2"
            /\ {task_reports[k].task_id : k \in RowsNaming(person)} = {"c2", "c3"}

\* the structural violations of a parsed JSON value: not an object, or the required
\* fields that are missing or hold a value of the wrong type
Violations(data) ==
    IF ~data.is_dict THEN {"object"}
    ELSE {field \in AllFields : field \notin data.present \/ field \notin data.well_typed}

\* C14: validate_trello_data returns one message per violation, each required field
\* that is missing or of the wrong type contributing exactly one, and reports the
\* input valid iff the list is empty.
C14_OneMessagePerViolation ==
    ret.op = "validate_trello_data" =>
        /\ Len(ret.value[2]) = Cardinality(Violations(trello_data))
        /\ ret.value[1] <=> ret.value[2] = <<>>

\* C15: a snapshot with a card that lacks its id or its name fails validation, so it
\* is never stored and no row is generated from it.
C15_IncompleteCardRejected ==
    /\ \A i \in 1..Len(trello_data.cards) : trello_data.cards[i].missing = {}
    /\ \A k \in 1..Len(task_reports) :
           task_reports[k].task_id # "" /\ task_reports[k].task_name # ""

\* C16: an upload that fails validation (process_uploaded_file returns False)
\* generates no rows and leaves the stored snapshot, the task reports, the
\* collaborator reports and the report summary exactly as they were.
C16_InvalidUploadLeavesSession ==
    [][ret'.op = "process_uploaded_file" /\ ret'.value = FALSE
           => UNCHANGED <<trello_data, task_reports, collaborator_reports, report_summary>>]_vars

C16_Witness ==
    /\ ret.op = "process_uploaded_file" /\ ret.value = FALSE
    /\ trello_data # NoData
    /\ Len(task_reports) > 0 /\ Len(collaborator_reports) > 0

\* C17: running generate_task_reports, generate_collaborator_reports and
\* generate_report_summary twice on the same snapshot and window, with the same
\* current date, yields identical rows in the same order and identical summaries.
C17_SameOutputTwice ==
    ret.op = "second_run" =>
        ret.value = << task_reports, collaborator_reports, Summary >>

\* the window filter as the claims state it: archived cards never pass, a card in a
\* done list passes on its due date, any other card on its last activity
PassesFilter(card) ==
    /\ ~card.closed
    /\ IF InDoneList(card) THEN InWindow(card.due) ELSE InWindow(card.dateLastActivity)

RowsOfCard(id) == {k \in 1..Len(Rows) : Rows[k].task_id = id}

\* C18: every row's task id is the id of a card of the snapshot that passed the
\* window filter, and no row is ever produced for an archived card.
C18_RowsOnlyForFilteredCards ==
    RowsReturned =>
        /\ \A k \in 1..Len(Rows) :
               \E i \in 1..Len(trello_data.cards) :
                   /\ trello_data.cards[i].id = Rows[k].task_id
                   /\ PassesFilter(trello_data.cards[i])
        /\ \A i \in 1..Len(trello_data.cards) :
               trello_data.cards[i].closed => RowsOfCard(trello_data.cards[i].id) = {}

C18_Witness ==
    /\ RowsReturned
    /\ trello_data.cards[1].closed
    /\ ~InDoneList(trello_data.cards[1])
    /\ InWindow(trello_data.cards[1].dateLastActivity)
    /\ Len(Rows) = 1
    /\ Rows[1].task_id = trello_data.cards[2].id

\* a timestamp that is present and does not parse
Malformed(ts) == ts.kind = "bad"

\* the card of the two-card board that is not OtherCard
BatchCard == IF trello_data.cards[1] = OtherCard THEN trello_data.cards[2] ELSE trello_data.cards[1]

\* C20: a malformed due or last-activity timestamp never aborts the batch: the
\* other card yields exactly the rows it yields when the malformed card is absent;
\* a malformed due date gives lateness 0, no Late status and the due date
\* 'Não definida'; a malformed date used for window matching excludes the card.
C20_MalformedDatesAreAbsent ==
    RowsReturned /\ (Malformed(BatchCard.due) \/ Malformed(BatchCard.dateLastActivity)) =>
        /\ LET of_other(row) == row.task_id = OtherCard.id
           IN  SelectSeq(Rows, of_other)
                   = generate_task_reports(Board(<<OtherCard>>), date_range[1], date_range[2])
        /\ Malformed(BatchCard.due) =>
               \A k \in RowsOfCard(BatchCard.id) :
                   /\ Rows[k].days_late = 0
                   /\ Rows[k].status # "Atrasada"
                   /\ Rows[k].due_date = <<"Não definida">>
        /\ Malformed(BatchCard.due) /\ InDoneList(BatchCard) => RowsOfCard(BatchCard.id) = {}
        /\ Malformed(BatchCard.dateLastActivity) /\ ~InDoneList(BatchCard) =>
               RowsOfCard(BatchCard.id) = {}

C20_Witness ==
    /\ RowsReturned
    /\ trello_data.cards[1] = BatchCard
    /\ Malformed(BatchCard.due)
    /\ RowsOfCard(BatchCard.id) # {}
    /\ Rows[1].due_date = <<"Não definida">>
    /\ RowsOfCard(OtherCard.id) # {}

\* the group a stored row is filtered on
GroupOrSemGrupo(row) == IF row.grupo = None THEN "Sem Grupo" ELSE row.grupo

\* C19: when process_trello_data has completed, every stored row's group ('Sem Grupo'
\* for a row without one) is in the selected set, and the collaborator reports and
\* the summary are those of exactly the retained rows.
C19_OnlySelectedGroups ==
    [][<<task_reports, collaborator_reports, report_summary>>'
           # <<task_reports, collaborator_reports, report_summary>>
       => /\ \A k \in 1..Len(task_reports') :
                 GroupOrSemGrupo(task_reports'[k]) \in selected_groups'
          /\ collaborator_reports' = generate_collaborator_reports(task_reports')
          /\ report_summary' = << generate_report_summary(task_reports') >>
          /\ report_summary'[1].total_tasks
                 = Cardinality({task_reports'[k].task_id : k \in 1..Len(task_reports')})
          /\ \A c \in 1..Len(collaborator_reports') :
                 \E k \in 1..Len(task_reports') :
                     NamedIn(collaborator_reports'[c].collaborator_name,
                             task_reports'[k].collaborator_name)]_vars

C19_Witness ==
    /\ selected_groups = {"Grupo 2", "Sem Grupo"}
    /\ Len(task_reports) > 0
    /\ \A k \in 1..Len(task_reports) : GroupOrSemGrupo(task_reports[k]) \in selected_groups
    /\ Len(task_reports) < Len(generate_task_reports(trello_data, date_range[1], date_range[2]))
    /\ Summary.total_tasks = Cardinality({task_reports[k].task_id : k \in 1..Len(task_reports)})

\* C21: report generation never modifies the snapshot it reads, so each of two
\* generations over the same snapshot with different windows, their steps
\* interleaved in any order, returns exactly the rows it returns when run alone.
C21_InterleavedCallsAgree ==
    /\ [][trello_data' = trello_data]_vars
    /\ [](\A k \in {1, 2} :
              Calls[k].pc = "done" =>
                  Calls[k].reports = generate_task_reports(trello_data, Calls[k].start_date,
                                                           Calls[k].end_date))

C21_Witness ==
    /\ Calls[1].pc = "loop" /\ Len(Calls[1].reports) > 0 /\ Calls[1].filtered_cards # <<>>
    /\ Calls[2].pc = "done" /\ Len(Calls[2].reports) > 0
    /\ Calls[2].reports # generate_task_reports(trello_data, Calls[1].start_date,
                                                Calls[1].end_date)

SummaryReturned == ret.op = "generate_report_summary"

\* the positions of the input rows that are the first with their task id among
\* the rows at the positions in `among`
FirstOfId(among) ==
    {k \in among : \A j \in among : j < k => task_reports[j].task_id # task_reports[k].task_id}

\* the positions of the input rows of the group a group summary is about
InputRowsOf(gs) ==
    {k \in 1..Len(task_reports) :
        task_reports[k].grupo = (IF gs.grupo = "Sem Grupo" THEN None ELSE gs.grupo)}

\* the group's deduplicated rows that are Done and have a defined due date
Delivered(gs) ==
    {k \in FirstOfId(InputRowsOf(gs)) :
        /\ task_reports[k].status = "Concluída"
        /\ task_reports[k].due_date # <<"Não definida">>}

\* C22: in every group summary, 'Sem Grupo' included, on_time_deliveries counts the
\* group's rows, deduplicated by task id, that are Done with a defined due date and
\* lateness 0, late_deliveries those with lateness > 0; their sum never exceeds
\* completed_tasks.
C22_Deliveries ==
    SummaryReturned =>
        \A g \in 1..Len(ret.value.group_summaries) :
            LET gs == ret.value.group_summaries[g]
            IN  /\ gs.on_time_deliveries
                       = Cardinality({k \in Delivered(gs) : task_reports[k].days_late = 0})
                /\ gs.late_deliveries
                       = Cardinality({k \in Delivered(gs) : task_reports[k].days_late > 0})
                /\ gs.on_time_deliveries + gs.late_deliveries <= gs.completed_tasks

C22_Witness ==
    /\ SummaryReturned
    /\ Len(ret.value.group_summaries) = 5
    /\ ret.value.group_summaries[5].on_time_deliveries = 1
    /\ ret.value.group_summaries[5].late_deliveries = 1
    /\ ret.value.group_summaries[5].completed_tasks = 2
    /\ ret.value.group_summaries[1].completed_tasks = 1
    /\ ret.value.group_summaries[1].on_time_deliveries = 0
    /\ ret.value.group_summaries[1].late_deliveries = 0

\* C23: the group summaries hold a 'Sem Grupo' entry iff at least one input row has
\* no group; the four configured groups are always there, in registry order and
\* before 'Sem Grupo', also with zero tasks.
C23_SemGrupoEntry ==
    SummaryReturned =>
        LET gs == ret.value.group_summaries
        IN  /\ Len(gs) >= 4
            /\ [g \in 1..4 |-> gs[g].grupo] = <<"Grupo 1", "Grupo 2", "Grupo 3", "Grupo 4">>
            /\ IF \E k \in 1..Len(task_reports) : task_reports[k].grupo = None
               THEN Len(gs) = 5 /\ gs[5].grupo = "Sem Grupo"
               ELSE Len(gs) = 4

C23_Witness ==
    /\ SummaryReturned
    /\ Len(task_reports) = MaxRows
    /\ Len(ret.value.group_summaries) = 4
    /\ ret.value.group_summaries[1].total_tasks = 2
    /\ ret.value.group_summaries[2].total_tasks = 0

\* the individual names the rows of the aggregator specifications carry
People == {"Ana", "Bia"}

\* C24: total_collaborators is the number of distinct individual names on the rows
\* that are the first of their task id, a comma-joined field counting once per name;
\* a name found only on a later row of a task id already seen is not counted.
C24_TotalCollaborators ==
    SummaryReturned =>
        ret.value.total_collaborators
            = Cardinality({person \in People :
                  \E k \in FirstOfId(1..Len(task_reports)) :
                      NamedIn(person, task_reports[k].collaborator_name)})

C24_Witness ==
    /\ SummaryReturned
    /\ ret.value.total_collaborators = 1
    /\ ret.value.total_tasks = 2
    /\ \E k \in 1..Len(task_reports) : NamedIn("Bia", task_reports[k].collaborator_name)

\* the number of task ids whose first row has this status
FirstRowsWith(status) ==
    Cardinality({k \in FirstOfId(1..Len(task_reports)) : task_reports[k].status = status})

\* C29: the board-wide completed, in-progress, late and blocked counts classify each
\* distinct task id at most once, by the status of its first row; so their sum is at
\* most total_tasks, and overdue_tasks = late_tasks.
C29_FirstRowClassifies ==
    SummaryReturned =>
        /\ ret.value.completed_tasks = FirstRowsWith("Concluída")
        /\ ret.value.in_progress_tasks = FirstRowsWith("Em Andamento")
        /\ ret.value.late_tasks = FirstRowsWith("Atrasada")
        /\ ret.value.blocked_tasks = FirstRowsWith("Bloqueada")
        /\ ret.value.completed_tasks + ret.value.in_progress_tasks
               + ret.value.late_tasks + ret.value.blocked_tasks <= ret.value.total_tasks
        /\ ret.value.overdue_tasks = ret.value.late_tasks

C29_Witness ==
    /\ SummaryReturned
    /\ Len(task_reports) = 3
    /\ task_reports[1].status = "Planejamento"
    /\ task_reports[2].status = "Bloqueada" /\ task_reports[2].task_id = task_reports[1].task_id
    /\ task_reports[3].status = "Atrasada" /\ task_reports[3].task_id # task_reports[1].task_id
    /\ ret.value.total_tasks = 2
    /\ ret.value.late_tasks = 1
    /\ ret.value.blocked_tasks = 0

CollabReturned == ret.op = "generate_collaborator_reports"

\* the class a collaborator's task list is ordered on: Late, Done, any other status
StatusClass(row) ==
    IF row.status = "Atrasada" THEN 1 ELSE IF row.status = "Concluída" THEN 2 ELSE 3

\* C25: collaborators come in non-increasing order of completion_rate, and each
\* collaborator's tasks with the Late rows first, then the Done rows, then every
\* other status, by ascending task name within each of the three classes.
C25_Ordering ==
    CollabReturned =>
        /\ \A c \in 1..(Len(ret.value) - 1) :
               ret.value[c].completion_rate.num * ret.value[c + 1].completion_rate.den
                   >= ret.value[c + 1].completion_rate.num * ret.value[c].completion_rate.den
        /\ \A c \in 1..Len(ret.value) :
               \A i \in 1..Len(ret.value[c].tasks) :
                   \A j \in (i + 1)..Len(ret.value[c].tasks) :
                       LET a == ret.value[c].tasks[i]
                           b == ret.value[c].tasks[j]
                       IN  \/ StatusClass(a) < StatusClass(b)
                           \/ /\ StatusClass(a) = StatusClass(b)
                              /\ ~StrLess(b.task_name, a.task_name)

C25_Witness ==
    /\ CollabReturned
    /\ Len(ret.value) = 2
    /\ ret.value[1].collaborator_name = "Bia"
    /\ ret.value[1].completion_rate = [num |-> 100, den |-> 1]
    /\ ret.value[2].completion_rate = [num |-> 100, den |-> 3]
    /\ Len(ret.value[2].tasks) = 3
    /\ task_reports[1].status = "Em Andamento"
    /\ task_reports[3].status = "Atrasada"
    /\ ret.value[2].tasks[1].status = "Atrasada"
    /\ ret.value[2].tasks[2].status = "Concluída"

\* the lateness of the rows of a collaborator's deduplicated task list that are Late
\* or In-Progress with a lateness above 0
CountedLateness(tasks) ==
    LET counted(t) == t.status \in {"Atrasada", "Em Andamento"} /\ t.days_late > 0
        rows == SelectSeq(tasks, counted)
    IN  [i \in 1..Len(rows) |-> rows[i].days_late]

\* C26: a collaborator's average_days_late is the mean of days_late over their
\* deduplicated rows that are Late or In-Progress with days_late > 0, rounded to the
\* nearest integer (at most a half away from the mean), and 0 when there is no such
\* row; Done, Blocked, Planning and Recurring rows never contribute.
C26_AverageDaysLate ==
    CollabReturned =>
        \A c \in 1..Len(ret.value) :
            LET late == CountedLateness(ret.value[c].tasks)
                diff == ret.value[c].average_days_late * Len(late) - Sum(late)
            IN  IF Len(late) = 0 THEN ret.value[c].average_days_late = 0
                ELSE 2 * diff <= Len(late) /\ -2 * diff <= Len(late)

C26_Witness ==
    /\ CollabReturned
    /\ \E c \in 1..Len(ret.value) :
           /\ ret.value[c].collaborator_name = "Ana"
           /\ CountedLateness(ret.value[c].tasks) = <<2, 1, 1>>
           /\ ret.value[c].average_days_late = 1
    /\ \E c \in 1..Len(ret.value) :
           /\ ret.value[c].collaborator_name = "Bia"
           /\ CountedLateness(ret.value[c].tasks) = <<1>>
           /\ ret.value[c].average_days_late = 1

\* C27: every row generate_task_reports returns with status Late has days_late >= 1,
\* for ordinary viewers, content creators and unassigned cards alike.
C27_LateRowsHaveLateness ==
    RowsReturned =>
        \A k \in 1..Len(Rows) : Rows[k].status = "Atrasada" => Rows[k].days_late >= 1

C27_Witness ==
    /\ RowsReturned
    /\ Len(Rows) = 2
    /\ Rows[1].grupo = "Grupo 1" /\ Rows[1].status = "Atrasada" /\ Rows[1].days_late = 1
    /\ Rows[2].grupo = None /\ Rows[2].status = "Atrasada" /\ Rows[2].days_late = 1

\* C28: every member of 'Grupo 1' is a content creator, so every 'Grupo 1' row with
\* status Done has days_late = 0, and the 'Grupo 1' summary of the generated rows has
\* late_deliveries = 0.
C28_GrupoOneNeverLate ==
    RowsReturned =>
        /\ \A k \in 1..Len(Rows) :
               Rows[k].grupo = "Grupo 1" /\ Rows[k].status = "Concluída"
                   => Rows[k].days_late = 0
        /\ generate_report_summary(Rows).group_summaries[1].grupo = "Grupo 1"
        /\ generate_report_summary(Rows).group_summaries[1].late_deliveries = 0

C28_Witness ==
    /\ RowsReturned
    /\ Len(Rows) = 2
    /\ DueBeforeToday(TheCard)
    /\ \E k \in 1..2 :
           /\ Rows[k].grupo = "Grupo 1" /\ Rows[k].status = "Concluída"
           /\ Rows[k].days_late = 0 /\ Rows[k].due_date # <<"Não definida">>
    /\ \E k \in 1..2 : Rows[k].grupo = "Grupo 2" /\ Rows[k].days_late > 0
    /\ generate_report_summary(Rows).group_summaries[1].on_time_deliveries = 1

\* C30: every row generate_task_reports returns with feita = true has status Done,
\* and every row without a group has feita = false and finalizada_para_flavia = false.
C30_FeitaIsDone ==
    RowsReturned =>
        \A k \in 1..Len(Rows) :
            /\ Rows[k].feita => Rows[k].status = "Concluída"
            /\ Rows[k].grupo = None => ~Rows[k].feita /\ ~Rows[k].finalizada_para_flavia

C30_Witness ==
    /\ RowsReturned
    /\ Len(Rows) = 2
    /\ Rows[1].grupo = "Grupo 2" /\ Rows[1].feita /\ Rows[1].status = "Concluída"
    /\ Rows[2].grupo = None /\ ~Rows[2].feita /\ Rows[2].status = "Concluída"

=============================================================================
